---------------------------- MODULE Spec2Model ----------------------------
(***************************************************************************)
(* Query algebra of the data broker and its translation to HTTP query      *)
(* parameters.                                                             *)
(*                                                                         *)
(* A query is a tree of predicates over field handles (True, Eq, Ne, Gt,   *)
(* Lt) and combinators (And, Or, Xor, Not, Either).  It is evaluated       *)
(* locally on a record (Query::evaluate) and lowered to HTTP parameters by *)
(* ToHttp::to_http_single (one request plus residue sub-queries) and       *)
(* ToHttp::to_http_multi (a list of requests, or None).                    *)
(*                                                                         *)
(* Further sections model the alternate Debug rendering of a query, the    *)
(* composition of field handles, the JSON codec with the default methods   *)
(* of Encode and Decode, the REST connector and its typestate builder, the *)
(* default methods of Source and Sink, the Broker, and the classification  *)
(* of transport errors.  Each has a specification of its own: Spec,        *)
(* SpecDebug, SpecThen, SpecCodec, SpecRest, SpecBuilder, SpecSource,      *)
(* SpecSink, SpecBroker, SpecClassify.                                     *)
(***************************************************************************)
EXTENDS Integers, Sequences, FiniteSets, TLC

\* Largest number of nodes of a modelled query tree.
MaxNodes == 5

-----------------------------------------------------------------------------
(* Records, field handles, values *)

\* The `title` and `author` fields of the record type.
FieldNames == {"title", "author"}

\* The field values U: a one-digit and a two-digit integer.
Values == {7, 12}

\* The records T the queries are evaluated on.
Records == [FieldNames -> Values]

\* Field<T, U, NAME>: a getter and the static name the derive macro gives it.
Fields == {[name |-> n, getter |-> n] : n \in FieldNames}

\* Isbn { value }: the record type of Book's nested `isbn` field.
Isbns == [{"value"} -> Values]

\* Book { title, author, isbn: Isbn { value } }
Books == [title : Values, author : Values, isbn : Isbns]

\* Book::title(), Book::author(), Book::isbn()
BookFields == {[name |-> n, getter |-> n] : n \in {"title", "author", "isbn"}}

\* Isbn::value()
IsbnFields == {[name |-> "value", getter |-> "value"]}

\* outer.then(&inner): the handle named "{outer}.{inner}" whose getter is
\* inner's getter after outer's; "then" stands for that closure.
then(outer, inner) ==
    [name |-> outer.name \o "." \o inner.name, getter |-> "then",
     outer |-> outer, inner |-> inner]

IsComposed(field) == field.getter = "then"

RECURSIVE Getter(_, _)

\* The getter of outer.then(&inner), applied to data.
ComposedGetter(field, data) == Getter(field.inner, Getter(field.outer, data))

\* (self.field.getter)(data)
Getter(field, data) ==
    IF IsComposed(field) THEN ComposedGetter(field, data)
    ELSE data[field.getter]

\* NAME of a field handle.
Name(field) == field.name

Digits == <<"0", "1", "2", "3", "4", "5", "6", "7", "8", "9">>

RECURSIVE to_string(_)
\* value.to_string(): the decimal Display form of an integer value.
to_string(v) ==
    IF v < 0 THEN "-" \o to_string(0 - v)
    ELSE IF v < 10 THEN Digits[v + 1]
    ELSE to_string(v \div 10) \o Digits[(v % 10) + 1]

-----------------------------------------------------------------------------
(* The query AST *)

True == [kind |-> "True"]
Eq(f, v) == [kind |-> "Eq", field |-> f, value |-> v]
Ne(f, v) == [kind |-> "Ne", field |-> f, value |-> v]
Gt(f, v) == [kind |-> "Gt", field |-> f, value |-> v]
Lt(f, v) == [kind |-> "Lt", field |-> f, value |-> v]
And(l, r) == [kind |-> "And", lhs |-> l, rhs |-> r]
Or(l, r) == [kind |-> "Or", lhs |-> l, rhs |-> r]
Xor(l, r) == [kind |-> "Xor", lhs |-> l, rhs |-> r]
Not(x) == [kind |-> "Not", query |-> x]
\* Either::Left(query) and Either::Right(query)
Left(x) == [kind |-> "Left", query |-> x]
Right(x) == [kind |-> "Right", query |-> x]

Leaves ==
    {True} \cup {Eq(f, v) : f \in Fields, v \in Values}
           \cup {Ne(f, v) : f \in Fields, v \in Values}
           \cup {Gt(f, v) : f \in Fields, v \in Values}
           \cup {Lt(f, v) : f \in Fields, v \in Values}

\* All query trees of exactly n nodes built from the predicates and And, Or,
\* Xor, Not.
QueriesOfSize[n \in 1 .. MaxNodes] ==
    IF n = 1 THEN Leaves
    ELSE {Not(x) : x \in QueriesOfSize[n - 1]}
         \cup UNION {
                {And(l, r) : l \in QueriesOfSize[i], r \in QueriesOfSize[n - 1 - i]}
                \cup {Or(l, r) : l \in QueriesOfSize[i], r \in QueriesOfSize[n - 1 - i]}
                \cup {Xor(l, r) : l \in QueriesOfSize[i], r \in QueriesOfSize[n - 1 - i]}
              : i \in 1 .. (n - 2)}

\* The smaller operand of a binary combinator of at most MaxNodes nodes has
\* at most (MaxNodes - 1) \div 2 nodes.
MaxOperand == (MaxNodes - 1) \div 2

\* The queries of at most n nodes (n <= MaxOperand) that a query under
\* construction is combined with.
Operands(n) ==
    UNION {QueriesOfSize[k] : k \in 1 .. (IF n < MaxOperand THEN n ELSE MaxOperand)}

RECURSIVE HasEither(_)
\* Whether an Either node occurs in a query tree.
HasEither(x) ==
    CASE x.kind \in {"True", "Eq", "Ne", "Gt", "Lt"} -> FALSE
      [] x.kind \in {"And", "Or", "Xor"} -> HasEither(x.lhs) \/ HasEither(x.rhs)
      [] x.kind \in {"Left", "Right"} -> TRUE
      [] OTHER -> HasEither(x.query)

RECURSIVE Size(_)
\* Number of nodes of a query tree.
Size(x) ==
    CASE x.kind \in {"True", "Eq", "Ne", "Gt", "Lt"} -> 1
      [] x.kind \in {"And", "Or", "Xor"} -> 1 + Size(x.lhs) + Size(x.rhs)
      [] OTHER -> 1 + Size(x.query)

-----------------------------------------------------------------------------
(* Query::evaluate *)

RECURSIVE evaluate(_, _)

TrueEvaluate(self, data) == TRUE

EqEvaluateAsNe(self, data) == Getter(self.field, data) # self.value

EqEvaluate(self, data) == Getter(self.field, data) = self.value

NeEvaluate(self, data) == Getter(self.field, data) # self.value

GtEvaluate(self, data) == Getter(self.field, data) > self.value

LtEvaluate(self, data) == Getter(self.field, data) < self.value

AndEvaluate(self, data) == evaluate(self.lhs, data) /\ evaluate(self.rhs, data)

OrEvaluate(self, data) == evaluate(self.lhs, data) \/ evaluate(self.rhs, data)

\* A plausible slip: `|` written for `^`.
XorEvaluateAsOr(self, data) == evaluate(self.lhs, data) \/ evaluate(self.rhs, data)

XorEvaluate(self, data) == evaluate(self.lhs, data) # evaluate(self.rhs, data)

NotEvaluate(self, data) == ~evaluate(self.query, data)

EitherEvaluate(self, data) ==
    CASE self.kind = "Left" -> evaluate(self.query, data)
      [] self.kind = "Right" -> evaluate(self.query, data)

\* query.evaluate(&data), dispatched on the node's type.
evaluate(self, data) ==
    CASE self.kind = "True" -> TrueEvaluate(self, data)
      [] self.kind = "Eq" -> EqEvaluate(self, data)
      [] self.kind = "Ne" -> NeEvaluate(self, data)
      [] self.kind = "Gt" -> GtEvaluate(self, data)
      [] self.kind = "Lt" -> LtEvaluate(self, data)
      [] self.kind = "And" -> AndEvaluate(self, data)
      [] self.kind = "Or" -> OrEvaluate(self, data)
      [] self.kind = "Xor" -> XorEvaluate(self, data)
      [] self.kind = "Not" -> NotEvaluate(self, data)
      [] self.kind \in {"Left", "Right"} -> EitherEvaluate(self, data)

-----------------------------------------------------------------------------
(* ToHttp::to_http_single *)

\* Single { query, residue }
Single(query, residue) == [query |-> query, residue |-> residue]

\* The ToHttp trait bounds: which query types have a ToHttp implementation.
RECURSIVE IsToHttp(_)
IsToHttp(self) ==
    CASE self.kind \in {"True", "Eq", "Ne", "Gt", "Lt"} -> TRUE
      [] self.kind \in {"And", "Or", "Xor"} -> IsToHttp(self.lhs) /\ IsToHttp(self.rhs)
      [] self.kind = "Not" -> TRUE
      [] OTHER -> FALSE

RECURSIVE to_http_single(_)
RECURSIVE to_http_multi(_)

TrueToHttpSingle(self) == Single(<<>>, <<>>)

\* A plausible slip: the pair written as (value, name).
EqToHttpSingleSwapped(self) ==
    Single(<< <<to_string(self.value), Name(self.field)>> >>, <<>>)

EqToHttpSingle(self) ==
    Single(<< <<Name(self.field), to_string(self.value)>> >>, <<>>)

NeToHttpSingle(self) == Single(<<>>, <<self>>)

GtToHttpSingle(self) == Single(<<>>, <<self>>)

LtToHttpSingle(self) == Single(<<>>, <<self>>)

\* A plausible slip: parameters of the right sub-query whose key the left
\* sub-query already uses are dropped (keys deduplicated).
AndToHttpSingleDedup(self) ==
    LET lhs == to_http_single(self.lhs)
        rhs == to_http_single(self.rhs)
        keys == {lhs.query[i][1] : i \in DOMAIN lhs.query}
    IN  Single(lhs.query \o SelectSeq(rhs.query, LAMBDA z : z[1] \notin keys),
               lhs.residue \o rhs.residue)

AndToHttpSingle(self) ==
    LET lhs == to_http_single(self.lhs)
        rhs == to_http_single(self.rhs)
    IN  Single(lhs.query \o rhs.query, lhs.residue \o rhs.residue)

\* A plausible slip: the `retain` is left out, the left parameters are all kept.
or_to_single_impl_no_retain(lhs, rhs) ==
    LET l == to_http_single(lhs)
        r == to_http_single(rhs)
    IN  Single(l.query, l.residue \o r.residue)

\* A plausible slip: parameters are matched by key only, not by (key, value).
or_to_single_impl_by_key(lhs, rhs) ==
    LET l == to_http_single(lhs)
        r == to_http_single(rhs)
        rhs_keys == {r.query[i][1] : i \in DOMAIN r.query}
        retained == SelectSeq(l.query, LAMBDA z : z[1] \in rhs_keys)
    IN  Single(retained, l.residue \o r.residue)

or_to_single_impl(lhs, rhs) ==
    LET l == to_http_single(lhs)
        r == to_http_single(rhs)
        rhs_query == {r.query[i] : i \in DOMAIN r.query}
        retained == SelectSeq(l.query, LAMBDA z : z \in rhs_query)
    IN  Single(retained, l.residue \o r.residue)

OrToHttpSingle(self) == or_to_single_impl(self.lhs, self.rhs)

\* A plausible slip: the Xor node is not pushed onto the residue.
XorToHttpSingleNoPush(self) == or_to_single_impl(self.lhs, self.rhs)

XorToHttpSingle(self) ==
    LET res == or_to_single_impl(self.lhs, self.rhs)
    IN  Single(res.query, Append(res.residue, self))

\* A plausible slip: the negated sub-query, not the Not node, is the residue.
NotToHttpSingleInner(self) == Single(<<>>, <<self.query>>)

NotToHttpSingle(self) == Single(<<>>, <<self>>)

to_http_single(self) ==
    CASE self.kind = "True" -> TrueToHttpSingle(self)
      [] self.kind = "Eq" -> EqToHttpSingle(self)
      [] self.kind = "Ne" -> NeToHttpSingle(self)
      [] self.kind = "Gt" -> GtToHttpSingle(self)
      [] self.kind = "Lt" -> LtToHttpSingle(self)
      [] self.kind = "And" -> AndToHttpSingle(self)
      [] self.kind = "Or" -> OrToHttpSingle(self)
      [] self.kind = "Xor" -> XorToHttpSingle(self)
      [] self.kind = "Not" -> NotToHttpSingle(self)

-----------------------------------------------------------------------------
(* ToHttp::to_http_multi; Option<Vec<HttpQuery>> is <<>> (None) or <<list>> *)

None == <<>>
Some(x) == <<x>>
IsSome(o) == o # None
Unwrap(o) == o[1]

TrueToHttpMulti(self) == Some(<< <<>> >>)

EqToHttpMulti(self) ==
    Some(<< << <<Name(self.field), to_string(self.value)>> >> >>)

NeToHttpMulti(self) == None

GtToHttpMulti(self) == None

LtToHttpMulti(self) == None

\* A plausible slip: `l.extend_from_slice(r)` is left out of the product.
AndToHttpMultiNoExtend(self) ==
    LET lhs == to_http_multi(self.lhs)
    IN  IF lhs = None THEN None
        ELSE LET rhs == to_http_multi(self.rhs)
             IN  IF rhs = None THEN None
                 ELSE LET ls == Unwrap(lhs)
                          rs == Unwrap(rhs)
                      IN  Some([k \in 1 .. (Len(ls) * Len(rs)) |->
                                  ls[((k - 1) \div Len(rs)) + 1]])

AndToHttpMulti(self) ==
    LET lhs == to_http_multi(self.lhs)
    IN  IF lhs = None THEN None
        ELSE LET rhs == to_http_multi(self.rhs)
             IN  IF rhs = None THEN None
                 ELSE LET ls == Unwrap(lhs)
                          rs == Unwrap(rhs)
                      IN  Some([k \in 1 .. (Len(ls) * Len(rs)) |->
                                  ls[((k - 1) \div Len(rs)) + 1]
                                  \o rs[((k - 1) % Len(rs)) + 1]])

OrToHttpMulti(self) ==
    LET lhs == to_http_multi(self.lhs)
    IN  IF lhs = None THEN None
        ELSE LET rhs == to_http_multi(self.rhs)
             IN  IF rhs = None THEN None
                 ELSE Some(Unwrap(lhs) \o Unwrap(rhs))

XorToHttpMulti(self) == None

NotToHttpMulti(self) == None

to_http_multi(self) ==
    CASE self.kind = "True" -> TrueToHttpMulti(self)
      [] self.kind = "Eq" -> EqToHttpMulti(self)
      [] self.kind = "Ne" -> NeToHttpMulti(self)
      [] self.kind = "Gt" -> GtToHttpMulti(self)
      [] self.kind = "Lt" -> LtToHttpMulti(self)
      [] self.kind = "And" -> AndToHttpMulti(self)
      [] self.kind = "Or" -> OrToHttpMulti(self)
      [] self.kind = "Xor" -> XorToHttpMulti(self)
      [] self.kind = "Not" -> NotToHttpMulti(self)

-----------------------------------------------------------------------------
(* State: one query, and the outcome of the one call made on it.           *)
(* A query is built from a predicate by wrapping it and by combining it    *)
(* with an operand, up to MaxNodes nodes; every tree of And, Or, Xor, Not  *)
(* over the predicates with at most MaxNodes nodes is built.  The modelled *)
(* Either nodes lie above the topmost binary combinator of the tree.       *)

VARIABLES
    q,        \* the query under construction's final value
    pc,       \* "built", or the method that was called on q
    single,   \* the value returned by q.to_http_single()
    multi,    \* the value returned by q.to_http_multi()
    data,     \* the record handed to q.evaluate(&data)
    result,   \* the value returned by q.evaluate(&data)
    text,     \* the output of format!("{q:#?}")
    field,    \* the field handle a predicate is made from
    overflow_checks,  \* whether the build panics on integer overflow
    entries,  \* the entries handed to the encoder
    encoded,  \* the value returned by the encoder
    op,       \* where `bytes` come from: an encoder method, or the wire
    bytes,    \* the bytes handed to the decoder
    stream,   \* the chunks handed to Decode::decode
    decoded,  \* the value returned by the decoder
    rest_query, \* the query handed to the REST connector
    requests, \* the HTTP requests the REST connector has issued
    response, \* what executing the request gave
    outcome,  \* the value returned by the REST connector
    builder,  \* the REST connector's Builder: its fields and type-level flags
    calls,    \* the calls made so far, in order
    returned, \* the value the call under study returned
    sources,  \* what each Source's own methods give
    polled,   \* how many items have been taken from each Source
    buffer,   \* what the Broker has gathered so far
    stack,    \* the Source methods entered and not yet returned
    sink,     \* what the Sink's send_one gives on each call
    sent      \* the entries handed to send_one, in order

queryVars == <<q, pc, single, multi, data, result>>

debugVars == <<text>>

fieldVars == <<field>>

codecVars == <<overflow_checks, entries, encoded, op, bytes, stream, decoded>>

restVars == <<rest_query, requests, response, outcome>>

builderVars == <<builder, calls>>

brokerVars == <<sources, polled, buffer, stack>>

sinkVars == <<sink, sent>>

\* The state of the builder, of the Source and Sink defaults and of the Broker.
connectorVars == <<builderVars, returned, brokerVars, sinkVars>>

\* The state of the codec and of the connectors.
ioVars == <<codecVars, restVars, connectorVars>>

\* No builder exists, and no call on a Source, a Sink or a Broker has been made.
ConnectorIdle ==
    /\ builder = None
    /\ calls = <<>>
    /\ returned = None
    /\ sources = <<>>
    /\ polled = <<>>
    /\ buffer = <<>>
    /\ stack = <<>>
    /\ sink = <<>>
    /\ sent = <<>>

\* No call on the REST connector has been made.
RestIdle ==
    /\ rest_query = None
    /\ requests = <<>>
    /\ response = None
    /\ outcome = None

\* No codec call has been made.
CodecIdle ==
    /\ overflow_checks = FALSE
    /\ entries = <<>>
    /\ encoded = None
    /\ op = ""
    /\ bytes = <<>>
    /\ stream = <<>>
    /\ decoded = None

\* What the calls on the query's translation and evaluation leave alone.
nonQueryVars == <<debugVars, fieldVars, ioVars>>

vars == <<queryVars, nonQueryVars>>

Init ==
    /\ q \in Leaves
    /\ pc = "built"
    /\ single = Single(<<>>, <<>>)
    /\ multi = None
    /\ data = <<>>
    /\ result = FALSE
    /\ text = ""
    /\ field = None
    /\ CodecIdle
    /\ RestIdle
    /\ ConnectorIdle

\* Not(q)
BuildNot ==
    /\ pc = "built"
    /\ Size(q) < MaxNodes
    /\ q' = Not(q)
    /\ UNCHANGED <<pc, single, multi, data, result>>
    /\ UNCHANGED nonQueryVars

\* Either::Left(q) or Either::Right(q)
BuildEither ==
    /\ pc = "built"
    /\ Size(q) < MaxNodes
    /\ q' \in {Left(q), Right(q)}
    /\ UNCHANGED <<pc, single, multi, data, result>>
    /\ UNCHANGED nonQueryVars

\* And(q, x) or And(x, q)
BuildAnd ==
    /\ pc = "built"
    /\ Size(q) + 1 < MaxNodes
    /\ ~HasEither(q)
    /\ \E x \in Operands(MaxNodes - 1 - Size(q)) :
         q' \in {And(q, x), And(x, q)}
    /\ UNCHANGED <<pc, single, multi, data, result>>
    /\ UNCHANGED nonQueryVars

\* Or(q, x) or Or(x, q)
BuildOr ==
    /\ pc = "built"
    /\ Size(q) + 1 < MaxNodes
    /\ ~HasEither(q)
    /\ \E x \in Operands(MaxNodes - 1 - Size(q)) :
         q' \in {Or(q, x), Or(x, q)}
    /\ UNCHANGED <<pc, single, multi, data, result>>
    /\ UNCHANGED nonQueryVars

\* Xor(q, x) or Xor(x, q)
BuildXor ==
    /\ pc = "built"
    /\ Size(q) + 1 < MaxNodes
    /\ ~HasEither(q)
    /\ \E x \in Operands(MaxNodes - 1 - Size(q)) :
         q' \in {Xor(q, x), Xor(x, q)}
    /\ UNCHANGED <<pc, single, multi, data, result>>
    /\ UNCHANGED nonQueryVars

\* let s = q.to_http_single();
ToHttpSingle ==
    /\ pc = "built"
    /\ IsToHttp(q)
    /\ single' = to_http_single(q)
    /\ pc' = "to_http_single"
    /\ UNCHANGED <<q, multi, data, result>>
    /\ UNCHANGED nonQueryVars

\* let m = q.to_http_multi();
ToHttpMulti ==
    /\ pc = "built"
    /\ IsToHttp(q)
    /\ multi' = to_http_multi(q)
    /\ pc' = "to_http_multi"
    /\ UNCHANGED <<q, single, data, result>>
    /\ UNCHANGED nonQueryVars

\* let b = q.evaluate(&r);
Evaluate ==
    /\ pc = "built"
    /\ \E r \in Records :
         /\ data' = r
         /\ result' = evaluate(q, r)
    /\ pc' = "evaluate"
    /\ UNCHANGED <<q, single, multi>>
    /\ UNCHANGED nonQueryVars

Build == BuildNot \/ BuildEither \/ BuildAnd \/ BuildOr \/ BuildXor

Next == Build \/ ToHttpSingle \/ ToHttpMulti \/ Evaluate

Spec == Init /\ [][Next]_vars

-----------------------------------------------------------------------------
(* Vocabulary of the properties *)

\* The elements of a sequence.
Range(seq) == {seq[i] : i \in DOMAIN seq}

\* A record satisfies the parameter (key, value) when the field called key
\* has the string form value.
SatisfiesPair(r, pair) ==
    \E f \in Fields : Name(f) = pair[1] /\ to_string(Getter(f, r)) = pair[2]

\* A record satisfies an HttpQuery when it satisfies every parameter of it.
Satisfies(r, query) == \A i \in DOMAIN query : SatisfiesPair(r, query[i])

\* The decimal string forms of the modelled values.
StringForm(v) == CASE v = 7 -> "7" [] v = 12 -> "12"

RECURSIVE Matching(_)
\* The records a query selects, by the algebra of sets.
Matching(x) ==
    CASE x.kind = "True" -> Records
      [] x.kind = "Eq" -> {r \in Records : r[x.field.getter] = x.value}
      [] x.kind = "Ne" -> {r \in Records : r[x.field.getter] # x.value}
      [] x.kind = "Gt" -> {r \in Records : r[x.field.getter] > x.value}
      [] x.kind = "Lt" -> {r \in Records : r[x.field.getter] < x.value}
      [] x.kind = "And" -> Matching(x.lhs) \cap Matching(x.rhs)
      [] x.kind = "Or" -> Matching(x.lhs) \cup Matching(x.rhs)
      [] x.kind = "Xor" -> (Matching(x.lhs) \ Matching(x.rhs))
                           \cup (Matching(x.rhs) \ Matching(x.lhs))
      [] x.kind = "Not" -> Records \ Matching(x.query)
      [] x.kind \in {"Left", "Right"} -> Matching(x.query)

-----------------------------------------------------------------------------
(* Properties *)

\* C1: every record matching q satisfies every parameter of
\* q.to_http_single().query: the native form never excludes a matching record.
C1_NativeKeepsMatches ==
    pc = "to_http_single" =>
        \A r \in Records : evaluate(q, r) => Satisfies(r, single.query)

\* C1 witness: an Or whose translation keeps a parameter, with a record that
\* matches and a record the parameters exclude.
C1_Witness ==
    /\ pc = "to_http_single"
    /\ q.kind = "Or"
    /\ single.query # <<>>
    /\ \E r \in Records : evaluate(q, r)
    /\ \E r \in Records : ~Satisfies(r, single.query)

\* C2: every residue sub-query of q.to_http_single() evaluates true on every
\* record matching q, so filtering by the residue drops no matching record.
C2_ResidueKeepsMatches ==
    pc = "to_http_single" =>
        \A r \in Records :
            evaluate(q, r) =>
                \A i \in DOMAIN single.residue : evaluate(single.residue[i], r)

\* C3: when the residue of q.to_http_single() is empty, a record satisfies
\* all parameters exactly when it matches q.
C3_EmptyResidueIsTotal ==
    (pc = "to_http_single" /\ single.residue = <<>>) =>
        \A r \in Records : Satisfies(r, single.query) <=> evaluate(q, r)

\* C4: when q.to_http_multi() is Some(list), a record matches q exactly when
\* it satisfies every parameter of at least one request of the list.
C4_MultiIsExact ==
    (pc = "to_http_multi" /\ IsSome(multi)) =>
        \A r \in Records :
            evaluate(q, r) <=>
                \E i \in DOMAIN Unwrap(multi) : Satisfies(r, Unwrap(multi)[i])

\* C4 witness: an And over an Or gives a product of more than one request,
\* each of more than one parameter.
C4_Witness ==
    /\ pc = "to_http_multi"
    /\ q.kind = "And"
    /\ IsSome(multi)
    /\ Len(Unwrap(multi)) > 1
    /\ \A i \in DOMAIN Unwrap(multi) : Len(Unwrap(multi)[i]) > 1
    /\ \E r \in Records : evaluate(q, r)
    /\ \E r \in Records : ~evaluate(q, r)

\* C5: True translates to no parameter and no residue (single) and to the
\* one empty request (multi); Eq(f, v) translates to the one parameter
\* (name of f, string form of v) with no residue (single) and to the one
\* request holding that parameter (multi).
C5_LeavesExact ==
    /\ (pc = "to_http_single" /\ q.kind = "True") =>
           (single.query = <<>> /\ single.residue = <<>>)
    /\ (pc = "to_http_multi" /\ q.kind = "True") => multi = <<  << <<>> >>  >>
    /\ (pc = "to_http_single" /\ q.kind = "Eq") =>
           /\ single.query = << <<q.field.name, StringForm(q.value)>> >>
           /\ single.residue = <<>>
    /\ (pc = "to_http_multi" /\ q.kind = "Eq") =>
           multi = <<  << << <<q.field.name, StringForm(q.value)>> >> >>  >>

\* C5 witness: an Eq on a two-digit value has been translated.
C5_Witness ==
    /\ pc = "to_http_single"
    /\ q.kind = "Eq"
    /\ q.value = 12
    /\ Len(single.query) = 1

\* C6: a Ne, Gt, Lt or Not node translates (single) to no parameter and the
\* residue holding exactly the node itself, and has no multi translation.
C6_ResidueOnlyNodes ==
    /\ (pc = "to_http_single" /\ q.kind \in {"Ne", "Gt", "Lt", "Not"}) =>
           (single.query = <<>> /\ single.residue = <<q>>)
    /\ (pc = "to_http_multi" /\ q.kind \in {"Ne", "Gt", "Lt", "Not"}) =>
           multi = None

\* C6 witness: a Not over a sub-query that alone translates to a parameter.
C6_Witness ==
    /\ pc = "to_http_single"
    /\ q.kind = "Not"
    /\ q.query.kind = "Eq"
    /\ single.residue = <<q>>

\* C7: the translation of And(A, B) is A's parameters followed by B's and
\* A's residue followed by B's; nothing is deduplicated or reordered.
C7_AndConcatenates ==
    (pc = "to_http_single" /\ q.kind = "And") =>
        LET a == to_http_single(q.lhs)
            b == to_http_single(q.rhs)
        IN  /\ single.query = a.query \o b.query
            /\ single.residue = a.residue \o b.residue
            /\ Len(single.query) = Len(a.query) + Len(b.query)

\* C7 witness: a key used in both sub-queries appears twice, and a
\* sub-query leaves residue.
C7_Witness ==
    /\ pc = "to_http_single"
    /\ q.kind = "And"
    /\ Len(single.query) = 2
    /\ to_http_single(q.lhs).query # <<>>
    /\ to_http_single(q.rhs).query # <<>>
    /\ single.query[1][1] = single.query[2][1]
    /\ single.residue # <<>>

\* C8: a parameter occurs in the translation of Or(A, B) exactly when it
\* occurs in A's and in B's, and the residue is A's followed by B's.
C8_OrIntersects ==
    (pc = "to_http_single" /\ q.kind = "Or") =>
        LET a == to_http_single(q.lhs)
            b == to_http_single(q.rhs)
        IN  /\ Range(single.query) = Range(a.query) \cap Range(b.query)
            /\ single.residue = a.residue \o b.residue

\* C8 witness: an Or that keeps a common parameter and drops one whose key
\* both sides use with different values.
C8_Witness ==
    /\ pc = "to_http_single"
    /\ q.kind = "Or"
    /\ single.query # <<>>
    /\ \E x \in Range(to_http_single(q.lhs).query) :
       \E y \in Range(to_http_single(q.rhs).query) :
           x[1] = y[1] /\ x[2] # y[2]

\* C9: Xor(A, B) translates (single) to the parameters of Or(A, B) and the
\* residue of Or(A, B) with the Xor node appended last; it has no multi
\* translation.
C9_XorIsOrPlusSelf ==
    /\ (pc = "to_http_single" /\ q.kind = "Xor") =>
           LET or == to_http_single(Or(q.lhs, q.rhs))
           IN  /\ single.query = or.query
               /\ single.residue = or.residue \o <<q>>
    /\ (pc = "to_http_multi" /\ q.kind = "Xor") => multi = None

\* C9 witness: a Xor that keeps a parameter and whose sub-queries leave
\* residue has been translated.
C9_Witness ==
    /\ pc = "to_http_single"
    /\ q.kind = "Xor"
    /\ single.query # <<>>
    /\ Len(single.residue) > 1

\* C10: q.evaluate(&r) is true exactly for the records the naive Boolean
\* reading of q selects.
C10_EvaluateIsNaive ==
    pc = "evaluate" => (result = (data \in Matching(q)))

\* C10 witness: a Xor of two sub-queries that both hold on the record has
\* been evaluated.
C10_Witness ==
    /\ pc = "evaluate"
    /\ q.kind = "Xor"
    /\ data \in Matching(q.lhs) \cap Matching(q.rhs)
    /\ result = FALSE

-----------------------------------------------------------------------------
(* Alternate Debug rendering of a query: format!("{q:#?}") *)

\* <True as Debug>::fmt with f.alternate()
TrueFmtAlternate(self) == "true"

\* <Eq as Debug>::fmt with f.alternate()
EqFmtAlternate(self) ==
    Name(self.field) \o " = " \o to_string(self.value)

\* <Ne as Debug>::fmt with f.alternate()
NeFmtAlternate(self) ==
    Name(self.field) \o " = " \o to_string(self.value)

\* <Gt as Debug>::fmt with f.alternate()
GtFmtAlternate(self) ==
    Name(self.field) \o " = " \o to_string(self.value)

\* <Lt as Debug>::fmt with f.alternate()
LtFmtAlternate(self) ==
    Name(self.field) \o " = " \o to_string(self.value)

RECURSIVE fmt_alternate(_)

\* <And as Debug>::fmt with f.alternate()
AndFmtAlternate(self) ==
    fmt_alternate(self.lhs) \o " & " \o fmt_alternate(self.rhs)

\* <Or as Debug>::fmt with f.alternate()
OrFmtAlternate(self) ==
    fmt_alternate(self.lhs) \o " | " \o fmt_alternate(self.rhs)

\* <Xor as Debug>::fmt with f.alternate()
XorFmtAlternate(self) ==
    fmt_alternate(self.lhs) \o " ^ " \o fmt_alternate(self.rhs)

\* <Not as Debug>::fmt with f.alternate()
NotFmtAlternate(self) ==
    "!(" \o fmt_alternate(self.query) \o ")"

\* write!(f, "{self:#?}"): static dispatch on the node type.
fmt_alternate(self) ==
    CASE self.kind = "True" -> TrueFmtAlternate(self)
      [] self.kind = "Eq" -> EqFmtAlternate(self)
      [] self.kind = "Ne" -> NeFmtAlternate(self)
      [] self.kind = "Gt" -> GtFmtAlternate(self)
      [] self.kind = "Lt" -> LtFmtAlternate(self)
      [] self.kind = "And" -> AndFmtAlternate(self)
      [] self.kind = "Or" -> OrFmtAlternate(self)
      [] self.kind = "Xor" -> XorFmtAlternate(self)
      [] self.kind = "Not" -> NotFmtAlternate(self)

\* let s = format!("{q:#?}");
FmtAlternate ==
    /\ pc = "built"
    /\ ~HasEither(q)
    /\ text' = fmt_alternate(q)
    /\ pc' = "fmt"
    /\ UNCHANGED <<q, single, multi, data, result>>
    /\ UNCHANGED <<fieldVars, ioVars>>

NextDebug == BuildNot \/ BuildAnd \/ BuildOr \/ BuildXor \/ FmtAlternate

\* Queries of And, Or, Xor, Not over the predicates, and their rendering.
SpecDebug == Init /\ [][NextDebug]_vars

PredicateKinds == {"Eq", "Ne", "Gt", "Lt"}

\* The infix operator the rendering of each predicate kind is to carry.
InfixOf(kind) ==
    CASE kind = "Eq" -> " = "
      [] kind = "Ne" -> " != "
      [] kind = "Gt" -> " > "
      [] kind = "Lt" -> " < "

\* C11: the alternate rendering of a predicate is `name op value` with the
\* operator of its kind (=, !=, >, <), so that predicates of different kinds
\* on the same field and value never render the same.
C11_DistinctInfixOperators ==
    (pc = "fmt" /\ q.kind \in PredicateKinds) =>
        /\ text = Name(q.field) \o InfixOf(q.kind) \o to_string(q.value)
        /\ \A k \in PredicateKinds \ {q.kind} :
             fmt_alternate([q EXCEPT !.kind = k]) # text

-----------------------------------------------------------------------------
(* Predicates over composed field handles, evaluated on nested records *)

InitThen ==
    /\ field \in BookFields
    /\ pc = "field"
    /\ q = True
    /\ single = Single(<<>>, <<>>)
    /\ multi = None
    /\ data = <<>>
    /\ result = FALSE
    /\ text = ""
    /\ CodecIdle
    /\ RestIdle
    /\ ConnectorIdle

\* let field = Book::isbn().then(&Isbn::value());
Then ==
    /\ pc = "field"
    /\ field.name = "isbn"
    /\ \E inner \in IsbnFields : field' = then(field, inner)
    /\ UNCHANGED <<queryVars, debugVars, ioVars>>

\* The handles whose value type is the scalar U.
IsScalar(f) == f.name # "isbn"

\* field.eq(v)
FieldEq ==
    /\ pc = "field"
    /\ IsScalar(field)
    /\ \E v \in Values : q' = Eq(field, v)
    /\ pc' = "built"
    /\ UNCHANGED <<single, multi, data, result, debugVars, fieldVars, ioVars>>

\* field.ne(v)
FieldNe ==
    /\ pc = "field"
    /\ IsScalar(field)
    /\ \E v \in Values : q' = Ne(field, v)
    /\ pc' = "built"
    /\ UNCHANGED <<single, multi, data, result, debugVars, fieldVars, ioVars>>

\* field.gt(v)
FieldGt ==
    /\ pc = "field"
    /\ IsScalar(field)
    /\ \E v \in Values : q' = Gt(field, v)
    /\ pc' = "built"
    /\ UNCHANGED <<single, multi, data, result, debugVars, fieldVars, ioVars>>

\* field.lt(v)
FieldLt ==
    /\ pc = "field"
    /\ IsScalar(field)
    /\ \E v \in Values : q' = Lt(field, v)
    /\ pc' = "built"
    /\ UNCHANGED <<single, multi, data, result, debugVars, fieldVars, ioVars>>

\* let b = q.evaluate(&book);
EvaluateBook ==
    /\ pc = "built"
    /\ \E book \in Books :
         /\ data' = book
         /\ result' = evaluate(q, book)
    /\ pc' = "evaluate"
    /\ UNCHANGED <<q, single, multi, debugVars, fieldVars, ioVars>>

NextThen ==
    Then \/ FieldEq \/ FieldNe \/ FieldGt \/ FieldLt \/ BuildNot \/ EvaluateBook

SpecThen == InitThen /\ [][NextThen]_vars

-----------------------------------------------------------------------------
(* The JSON codec.  Bytes are sequences of one-character strings.          *)

\* Longest modelled list of entries.
MaxLen == 2

\* Width of usize in the model.  The sums of the model stay far below
\* 2^UsizeBits; only the wrap of a subtraction below zero depends on it.
UsizeBits == 16

\* Result::Ok(value), Result::Err(error), and a panic that unwinds the call.
Ok(value) == [tag |-> "Ok", value |-> value]
Err(error) == [tag |-> "Err", error |-> error]
Panic(message) == [tag |-> "Panic", message |-> message]

IsOk(r) == r.tag = "Ok"

\* TestData { id }: the entries that serialize.
TestData == [id : Values]

\* A value of T whose Serialize implementation returns an error.
Unserializable == [unserializable |-> TRUE]

Entries == TestData \cup {Unserializable}

RECURSIVE ListsOfLen(_)
ListsOfLen(n) ==
    IF n = 0 THEN {<<>>}
    ELSE {Append(l, x) : l \in ListsOfLen(n - 1), x \in Entries}

\* The slices and iterators handed to the encoder.
Lists == UNION {ListsOfLen(n) : n \in 0..MaxLen}

RECURSIVE DigitChars(_)
\* The decimal digits serde_json writes for an unsigned integer.
DigitChars(v) ==
    IF v < 10 THEN <<Digits[v + 1]>>
    ELSE DigitChars(v \div 10) \o <<Digits[(v % 10) + 1]>>

\* {"id":
StructOpen == <<"{", "\"", "i", "d", "\"", ":">>

\* serde_json::to_vec(&entry) of one entry of T.
to_vec_entry(x) ==
    IF x = Unserializable THEN Err("Serialize")
    ELSE Ok(StructOpen \o DigitChars(x.id) \o <<"}">>)

RECURSIVE JoinWithCommas(_)
JoinWithCommas(parts) ==
    IF Len(parts) = 0 THEN <<>>
    ELSE IF Len(parts) = 1 THEN parts[1]
    ELSE parts[1] \o <<",">> \o JoinWithCommas(Tail(parts))

\* serde_json::to_vec(&entries) of a slice of T: a compact JSON array.
to_vec_slice(slice) ==
    IF \E i \in 1..Len(slice) : ~IsOk(to_vec_entry(slice[i]))
    THEN Err("Serialize")
    ELSE Ok(<<"[">>
            \o JoinWithCommas([i \in 1..Len(slice) |-> to_vec_entry(slice[i]).value])
            \o <<"]">>)

\* Json::format: to_vec(value).map(Into::into).map_err(|_err| todo!())
JsonFormat(serialized) ==
    IF IsOk(serialized) THEN serialized ELSE Panic("not yet implemented")

RECURSIVE Reversed(_)
Reversed(seq) ==
    IF Len(seq) = 0 THEN <<>> ELSE Append(Reversed(Tail(seq)), seq[1])

JsonEncodeAllReversed(slice) == JsonFormat(to_vec_slice(Reversed(slice)))

\* <Json as Encode>::encode_all
JsonEncodeAll(slice) == JsonFormat(to_vec_slice(slice))

\* <Json as Encode>::encode_one
JsonEncodeOne(entry) == JsonFormat(to_vec_entry(entry))

UsizeModulus == 2 ^ UsizeBits

\* a + b on usize: a panic with overflow checks, a wrap without them.
UsizeAdd(a, b, checked) ==
    IF ~IsOk(a) THEN a
    ELSE IF a.value + b >= UsizeModulus
    THEN IF checked THEN Panic("attempt to add with overflow")
         ELSE Ok((a.value + b) % UsizeModulus)
    ELSE Ok(a.value + b)

\* a - b on usize: a panic with overflow checks, a wrap without them.
UsizeSub(a, b, checked) ==
    IF ~IsOk(a) THEN a
    ELSE IF a.value < b
    THEN IF checked THEN Panic("attempt to subtract with overflow")
         ELSE Ok((a.value - b) % UsizeModulus)
    ELSE Ok(a.value - b)

RECURSIVE SumOfLens(_)
\* values.iter().map(|value| value.len()).sum::<usize>()
SumOfLens(values) ==
    IF Len(values) = 0 THEN 0 ELSE Len(values[1]) + SumOfLens(Tail(values))

\* sum of the lengths + values.len() - 1 + 2, evaluated left to right
required_cap(values, checked) ==
    UsizeAdd(UsizeSub(UsizeAdd(Ok(SumOfLens(values)), Len(values), checked),
                      1, checked),
             2, checked)

RECURSIVE PushRest(_, _)
\* for value in it { buf.push(b','); buf.extend(value); }
PushRest(buf, it) ==
    IF Len(it) = 0 THEN buf
    ELSE PushRest(buf \o <<",">> \o it[1], Tail(it))

\* <Json as Encode>::encode: the entries are encoded one by one, the
\* capacity of the buffer is computed, and the array is written by hand.
JsonEncode(iter, checked) ==
    LET each == [i \in 1..Len(iter) |-> JsonEncodeOne(iter[i])]
    IN  IF \E i \in 1..Len(iter) : ~IsOk(each[i])
        THEN each[CHOOSE i \in 1..Len(iter) :
                    /\ ~IsOk(each[i])
                    /\ \A j \in 1..(i - 1) : IsOk(each[j])]
        ELSE LET values == [i \in 1..Len(iter) |-> each[i].value]
                 cap == required_cap(values, checked)
                 first == IF Len(values) = 0 THEN <<"[">> ELSE <<"[">> \o values[1]
                 rest == IF Len(values) = 0 THEN <<>> ELSE Tail(values)
             IN  IF ~IsOk(cap) THEN cap
                 ELSE Ok(PushRest(first, rest) \o <<"]">>)

\* The outcome of parsing a prefix of the input: a value and the rest of
\* the input, or a syntax error.
Parsed(value, rest) == [ok |-> TRUE, value |-> value, rest |-> rest]
SyntaxError == [ok |-> FALSE]

IsDigit(c) == \E i \in 1..10 : Digits[i] = c

DigitValue(c) == (CHOOSE i \in 1..10 : Digits[i] = c) - 1

RECURSIVE ParseDigits(_, _)
ParseDigits(acc, s) ==
    IF Len(s) > 0 /\ IsDigit(s[1])
    THEN ParseDigits(acc * 10 + DigitValue(s[1]), Tail(s))
    ELSE Parsed(acc, s)

\* An unsigned JSON number: 0, or a digit from 1 to 9 and further digits.
ParseNumber(s) ==
    IF Len(s) = 0 \/ ~IsDigit(s[1]) THEN SyntaxError
    ELSE IF s[1] = "0" THEN Parsed(0, Tail(s))
    ELSE ParseDigits(0, s)

\* The input after the literal, or a syntax error if it does not start
\* with the literal.
Expect(literal, s) ==
    IF Len(s) >= Len(literal) /\ SubSeq(s, 1, Len(literal)) = literal
    THEN Parsed(literal, SubSeq(s, Len(literal) + 1, Len(s)))
    ELSE SyntaxError

\* Deserialize for TestData from one JSON value: the map {"id":n}, or the
\* sequence [n] of its fields in order.
ParseEntry(s) ==
    LET open == IF Len(s) > 0 /\ s[1] = "[" THEN Expect(<<"[">>, s)
                ELSE Expect(StructOpen, s)
        close == IF Len(s) > 0 /\ s[1] = "[" THEN <<"]">> ELSE <<"}">>
    IN  IF ~open.ok THEN SyntaxError
        ELSE LET id == ParseNumber(open.rest)
             IN  IF ~id.ok THEN SyntaxError
                 ELSE LET end == Expect(close, id.rest)
                      IN  IF ~end.ok THEN SyntaxError
                          ELSE Parsed([id |-> id.value], end.rest)

RECURSIVE ParseElements(_, _)
\* The elements of a JSON array after its first, up to the closing bracket.
ParseElements(acc, s) ==
    IF Len(s) = 0 THEN SyntaxError
    ELSE IF s[1] = "]" THEN Parsed(acc, Tail(s))
    ELSE IF s[1] # "," THEN SyntaxError
    ELSE LET entry == ParseEntry(Tail(s))
         IN  IF ~entry.ok THEN SyntaxError
             ELSE ParseElements(Append(acc, entry.value), entry.rest)

\* Deserialize for Vec<TestData> from one JSON value: an array of entries.
ParseList(s) ==
    IF Len(s) < 2 \/ s[1] # "[" THEN SyntaxError
    ELSE IF s[2] = "]" THEN Parsed(<<>>, SubSeq(s, 3, Len(s)))
    ELSE LET entry == ParseEntry(Tail(s))
         IN  IF ~entry.ok THEN SyntaxError
             ELSE ParseElements(<<entry.value>>, entry.rest)

\* serde_json::from_slice: one value and nothing after it.
from_slice(parsed) ==
    IF parsed.ok /\ parsed.rest = <<>> THEN Ok(parsed.value)
    ELSE Err("Deserialize")

\* result.map_err(|_err| todo!())
MapErrTodo(r) == IF IsOk(r) THEN r ELSE Panic("not yet implemented")

\* <Json as Decode>::decode_all
JsonDecodeAll(slice) == MapErrTodo(from_slice(ParseList(slice)))

\* <Json as Decode>::decode_optional
JsonDecodeOptional(slice) ==
    IF slice = <<>> THEN Ok(None)
    ELSE LET r == MapErrTodo(from_slice(ParseEntry(slice)))
         IN  IF IsOk(r) THEN Ok(Some(r.value)) ELSE r

\* The REST connector's decoder, a D: Decode<T> that reads JSON and returns
\* its failures: decode_all.
DecoderDecodeAll(slice) == from_slice(ParseList(slice))

\* The REST connector's decoder: decode_optional.
DecoderDecodeOptional(slice) ==
    IF slice = <<>> THEN Ok(None)
    ELSE LET r == from_slice(ParseEntry(slice))
         IN  IF IsOk(r) THEN Ok(Some(r.value)) ELSE r

\* self.decode_all(bytes): static dispatch on the decoder type.
decode_all(self, slice) ==
    CASE self = "Json" -> JsonDecodeAll(slice)
      [] self = "D" -> DecoderDecodeAll(slice)

\* self.decode_optional(bytes): static dispatch on the decoder type.
decode_optional(self, slice) ==
    CASE self = "Json" -> JsonDecodeOptional(slice)
      [] self = "D" -> DecoderDecodeOptional(slice)

\* Decode::decode_one (default):
\* self.decode_optional(bytes).map_err(DecodeOneError::Decode)?
\*     .ok_or(DecodeOneError::Empty)
decode_one(self, slice) ==
    LET r == decode_optional(self, slice)
    IN  IF r.tag = "Panic" THEN r
        ELSE IF r.tag = "Err" THEN Err([kind |-> "Decode", source |-> r.error])
        ELSE IF IsSome(r.value) THEN Ok(Unwrap(r.value))
        ELSE Err([kind |-> "Empty"])

\* From<DecodeOneError> for FetchOneError
FetchOneErrorFrom(value) ==
    CASE value.kind = "Decode" ->
           [kind |-> "Fetch", source |-> [kind |-> "Decode", source |-> value.source]]
      [] value.kind = "Empty" -> [kind |-> "NoSuchEntry"]

\* The connection errors a chunk of a byte stream can carry.
ConnectionErrors == {[variant |-> "TimedOut"], [variant |-> "Redirect"]}

RECURSIVE TryCollect(_, _)
\* bytes.try_collect::<BytesMut>(): the chunks in order, or the first error.
TryCollect(buf, chunks) ==
    IF Len(chunks) = 0 THEN Ok(buf)
    ELSE IF IsOk(chunks[1]) THEN TryCollect(buf \o chunks[1].value, Tail(chunks))
    ELSE chunks[1]

RECURSIVE SkipErrors(_)
SkipErrors(chunks) ==
    IF Len(chunks) = 0 THEN <<>>
    ELSE IF IsOk(chunks[1]) THEN <<chunks[1]>> \o SkipErrors(Tail(chunks))
    ELSE SkipErrors(Tail(chunks))

decode_skipping_errors(self, chunks) ==
    LET r == decode_all(self, TryCollect(<<>>, SkipErrors(chunks)).value)
    IN  IF r.tag = "Panic" THEN r
        ELSE Ok([i \in 1..Len(r.value) |-> Ok(r.value[i])])

\* Decode::decode (default): collect the stream, then decode_all the buffer.
decode(self, chunks) ==
    LET buf == TryCollect(<<>>, chunks)
    IN  IF ~IsOk(buf) THEN Err([kind |-> "Connection", source |-> buf.error])
        ELSE LET r == decode_all(self, buf.value)
             IN  IF r.tag = "Panic" THEN r
                 ELSE IF r.tag = "Err" THEN Err([kind |-> "Decode", source |-> r.error])
                 ELSE Ok([i \in 1..Len(r.value) |-> Ok(r.value[i])])

-----------------------------------------------------------------------------
(* State of the codec: one encoder call, or one decoder call on bytes that *)
(* come from an encoder call or from the wire.                             *)

\* Longest modelled stream of chunks.
MaxChunks == 2

\* The lists of entries that serialize.
DataLists == {l \in Lists : \A i \in 1..Len(l) : l[i] \in TestData}

\* Well-formed JSON: the encodings of the lists and of the entries, and an
\* entry written as the sequence of its fields.
Documents ==
    {to_vec_slice(l).value : l \in DataLists}
        \cup {to_vec_entry(x).value : x \in TestData}
        \cup {<<"[">> \o DigitChars(v) \o <<"]">> : v \in Values}

\* What the wire can deliver: a document, a document cut short by one byte
\* or down to its first byte, or nothing.
WireBytes ==
    Documents \cup {SubSeq(b, 1, Len(b) - 1) : b \in Documents}
              \cup {SubSeq(b, 1, 1) : b \in Documents} \cup {<<>>}

\* What can follow a chunk that is an error.
AfterError(b, n) ==
    IF n = 0 THEN {<<>>}
    ELSE {<<>>, <<Ok(b)>>} \cup {<<Err(e)>> : e \in ConnectionErrors}

RECURSIVE Streams(_, _)
\* The streams of at most n chunks that deliver b in non-empty pieces, or
\* fail on the way.
Streams(b, n) ==
    (IF b = <<>> THEN {<<>>} ELSE {})
        \cup (IF n = 0 THEN {}
              ELSE UNION {{<<Ok(SubSeq(b, 1, k))>> \o t :
                               t \in Streams(SubSeq(b, k + 1, Len(b)), n - 1)}
                              : k \in 1..Len(b)}
                   \cup {<<Err(e)>> \o t :
                             e \in ConnectionErrors, t \in AfterError(b, n - 1)})

\* The state of the query, of its rendering and of the field handle.
queryState == <<q, single, multi, data, result, text, field>>

\* No query has been built.
QueryIdle ==
    /\ q = True
    /\ single = Single(<<>>, <<>>)
    /\ multi = None
    /\ data = <<>>
    /\ result = FALSE
    /\ text = ""
    /\ field = None

\* Everything but pc and the codec's state.
pureVars == <<queryState, restVars, connectorVars>>

InitCodec ==
    /\ pc = "start"
    /\ QueryIdle
    /\ RestIdle
    /\ ConnectorIdle
    /\ overflow_checks \in BOOLEAN
    /\ entries = <<>>
    /\ encoded = None
    /\ op = ""
    /\ bytes = <<>>
    /\ stream = <<>>
    /\ decoded = None

\* let encoded = Json.encode_all(&entries);
EncodeAll ==
    /\ pc = "start"
    /\ \E l \in Lists :
         /\ entries' = l
         /\ encoded' = JsonEncodeAll(l)
    /\ pc' = "encode_all"
    /\ UNCHANGED <<pureVars, overflow_checks, op, bytes, stream, decoded>>

\* let encoded = Json.encode(entries);
Encode ==
    /\ pc = "start"
    /\ \E l \in Lists :
         /\ entries' = l
         /\ encoded' = JsonEncode(l, overflow_checks)
    /\ pc' = "encode"
    /\ UNCHANGED <<pureVars, overflow_checks, op, bytes, stream, decoded>>

\* let encoded = Json.encode_one(entry);
EncodeOne ==
    /\ pc = "start"
    /\ \E x \in Entries :
         /\ entries' = <<x>>
         /\ encoded' = JsonEncodeOne(x)
    /\ pc' = "encode_one"
    /\ UNCHANGED <<pureVars, overflow_checks, op, bytes, stream, decoded>>

\* The encoder returned Ok(bytes): the bytes are handed to the decoder.
Transmit ==
    /\ pc \in {"encode_all", "encode", "encode_one"}
    /\ IsOk(encoded)
    /\ bytes' = encoded.value
    /\ op' = pc
    /\ pc' = "received"
    /\ UNCHANGED <<pureVars, overflow_checks, entries, encoded, stream, decoded>>

\* Bytes arrive from the wire.
Receive ==
    /\ pc = "start"
    /\ \E b \in WireBytes : bytes' = b
    /\ op' = "wire"
    /\ pc' = "received"
    /\ UNCHANGED <<pureVars, overflow_checks, entries, encoded, stream, decoded>>

\* let decoded = Json.decode_all(&bytes);
DecodeAll ==
    /\ pc = "received"
    /\ decoded' = JsonDecodeAll(bytes)
    /\ pc' = "decode_all"
    /\ UNCHANGED <<pureVars, overflow_checks, entries, encoded, op, bytes, stream>>

\* let decoded = Json.decode_optional(&bytes);
DecodeOptional ==
    /\ pc = "received"
    /\ decoded' = JsonDecodeOptional(bytes)
    /\ pc' = "decode_optional"
    /\ UNCHANGED <<pureVars, overflow_checks, entries, encoded, op, bytes, stream>>

\* let decoded = Json.decode_one(&bytes);
DecodeOne ==
    /\ pc = "received"
    /\ decoded' = decode_one("Json", bytes)
    /\ pc' = "decode_one"
    /\ UNCHANGED <<pureVars, overflow_checks, entries, encoded, op, bytes, stream>>

\* let decoded = Json.decode(stream).await;
Decode ==
    /\ pc = "received"
    /\ \E chunks \in Streams(bytes, MaxChunks) :
         /\ stream' = chunks
         /\ decoded' = decode("Json", chunks)
    /\ pc' = "decode"
    /\ UNCHANGED <<pureVars, overflow_checks, entries, encoded, op, bytes>>

NextCodec ==
    \/ EncodeAll \/ Encode \/ EncodeOne
    \/ Transmit \/ Receive
    \/ DecodeAll \/ DecodeOptional \/ DecodeOne \/ Decode

SpecCodec == InitCodec /\ [][NextCodec]_vars

\* C13: decoding what the JSON codec encoded gives the input back:
\* decode_all(encode_all(L)) = L for every list L, the empty list included,
\* and decode_one(encode_one(x)) = x.
C13_RoundTrip ==
    /\ (pc = "decode_all" /\ op = "encode_all") => decoded = Ok(entries)
    /\ (pc = "decode_one" /\ op = "encode_one") => decoded = Ok(entries[1])

\* C13 witness: a list of two different entries has been encoded by
\* encode_all and decoded by decode_all.
C13_Witness ==
    /\ pc = "decode_all"
    /\ op = "encode_all"
    /\ Len(entries) = 2
    /\ entries[1] # entries[2]
    /\ IsOk(decoded)

\* C14: for every finite sequence of entries that serialize, the empty one
\* included, Json::encode over the iterator returns, without a panic, the
\* bytes encode_all returns for the same sequence.
C14_EncodeIsEncodeAll ==
    (pc = "encode" /\ entries \in DataLists) =>
        /\ IsOk(encoded)
        /\ encoded = JsonEncodeAll(entries)

EmptyCollection == <<"[", "]">>

\* C15: decode_one returns Empty on zero bytes and on an empty collection,
\* decode_optional returns None on zero bytes, and of the errors of
\* decode_one exactly Empty converts to NoSuchEntry.
C15_EmptyIsNoSuchEntry ==
    /\ (pc = "decode_one" /\ bytes \in {<<>>, EmptyCollection}) =>
           decoded = Err([kind |-> "Empty"])
    /\ (pc = "decode_optional" /\ bytes = <<>>) => decoded = Ok(None)
    /\ (pc = "decode_one" /\ decoded.tag = "Err") =>
           ((FetchOneErrorFrom(decoded.error).kind = "NoSuchEntry")
                <=> (decoded.error.kind = "Empty"))

\* C16: the codec reports its failures as error values: no call of an
\* encoder or decoder method panics, whatever its input.
C16_FailuresAreErrors ==
    /\ pc \in {"encode_all", "encode_one"} => encoded.tag # "Panic"
    /\ pc \in {"decode_all", "decode_optional"} => decoded.tag # "Panic"

RECURSIVE Concatenation(_)
\* The bytes of the chunks of a stream without errors, in order.
Concatenation(chunks) ==
    IF Len(chunks) = 0 THEN <<>>
    ELSE chunks[1].value \o Concatenation(Tail(chunks))

\* C17: if a chunk of the stream is Err(e), decode fails with Connection(e)
\* for the first such e and yields no record; if every chunk is Ok, the
\* outcome is that of decode_all on the concatenated chunks (the same records
\* in the same order) and never a Connection error.
C17_StreamErrorsPropagate ==
    pc = "decode" =>
        LET failed == {i \in 1..Len(stream) : ~IsOk(stream[i])}
        IN  IF failed # {}
            THEN LET first == CHOOSE i \in failed : \A j \in failed : i <= j
                 IN  decoded = Err([kind |-> "Connection",
                                    source |-> stream[first].error])
            ELSE LET all == JsonDecodeAll(Concatenation(stream))
                 IN  /\ IsOk(all) =>
                           /\ IsOk(decoded)
                           /\ Len(decoded.value) = Len(all.value)
                           /\ \A i \in 1..Len(all.value) :
                                  decoded.value[i] = Ok(all.value[i])
                     /\ ~IsOk(all) => decoded.tag = all.tag
                     /\ decoded.tag = "Err" => decoded.error.kind # "Connection"

\* C17 witness: a stream whose first chunk is Ok and whose second chunk is an
\* error has been decoded.
C17_Witness ==
    /\ pc = "decode"
    /\ Len(stream) = 2
    /\ IsOk(stream[1])
    /\ ~IsOk(stream[2])
    /\ decoded.tag = "Err"

-----------------------------------------------------------------------------
(* The REST connector Rest<T, Q, E, D> *)

\* The REST connector's encoder, an E: Encode<T> that writes JSON and
\* returns its failures: encode_all.
EncoderEncodeAll(slice) == to_vec_slice(slice)

\* The REST connector's encoder: encode_one.
EncoderEncodeOne(entry) == to_vec_entry(entry)

\* Encode::encode (default): collect the entries, then encode_all.
EncoderEncode(iter) == EncoderEncodeAll(iter)

\* A reqwest::Error as its accessors show it: the kind of failure, the
\* status code it carries if any, whether a timeout or a failed connect is
\* among its causes.
ReqwestError(kind, status, timeout, connect) ==
    [kind |-> kind, status |-> status, timeout |-> timeout, connect |-> connect]

\* The reqwest errors Client::execute returns in the connector's calls: none
\* of them carries a status, since Response::error_for_status is never called.
ExecuteErrors ==
    {ReqwestError("redirect", None, FALSE, FALSE),
     ReqwestError("request", None, TRUE, FALSE),
     ReqwestError("request", None, FALSE, TRUE)}

\* The reqwest error Response::bytes and Response::bytes_stream return.
BodyError == ReqwestError("body", None, FALSE, FALSE)

\* impl From<ReqwestError> for ConnectionError: two assertions, then the
\* cases in order of decreasing specificity.
classify_reqwest(value) ==
    IF value.kind = "builder" THEN Panic("assertion failed: !value.is_builder()")
    ELSE IF value.kind = "status" THEN Panic("assertion failed: !value.is_status()")
    ELSE IF IsSome(value.status)
    THEN [variant |-> "Http", code |-> Unwrap(value.status)]
    ELSE IF value.kind = "redirect" THEN [variant |-> "Redirect"]
    ELSE IF value.timeout THEN [variant |-> "TimedOut"]
    ELSE IF value.kind \in {"body", "decode"} THEN [variant |-> "Process"]
    ELSE [variant |-> "Io"]

\* FetchError::Connection, FetchError::Decode, FetchError::InvalidQuery
FetchError(kind, source) == [kind |-> kind, source |-> source]

\* Rest::fetch_impl: build the GET request, execute it.
fetch_impl(valid, executed) ==
    IF ~valid
    THEN Err(FetchError("InvalidQuery", ReqwestError("builder", None, FALSE, FALSE)))
    ELSE IF ~IsOk(executed)
    THEN Err(FetchError("Connection", classify_reqwest(executed.error)))
    ELSE executed

\* <&mut Rest as Source>::fetch_all
rest_fetch_all(valid, executed) ==
    LET fetched == fetch_impl(valid, executed)
    IN  IF ~IsOk(fetched) THEN fetched
        ELSE LET body == fetched.value.body
             IN  IF ~IsOk(body)
                 THEN Err(FetchError("Connection", classify_reqwest(body.error)))
                 ELSE LET r == decode_all("D", body.value)
                      IN  IF r.tag = "Err" THEN Err(FetchError("Decode", r.error))
                          ELSE r

\* <&mut Rest as Source>::fetch_one
rest_fetch_one(valid, executed) ==
    LET fetched == fetch_impl(valid, executed)
    IN  IF ~IsOk(fetched) THEN Err([kind |-> "Fetch", source |-> fetched.error])
        ELSE LET body == fetched.value.body
             IN  IF ~IsOk(body)
                 THEN Err([kind |-> "Fetch",
                           source |-> FetchError("Connection",
                                                 classify_reqwest(body.error))])
                 ELSE LET r == decode_one("D", body.value)
                      IN  IF r.tag = "Err" THEN Err(FetchOneErrorFrom(r.error))
                          ELSE r

\* <&mut Rest as Source>::fetch: the body is handed to the decoder as a
\* stream, each of its errors as ConnectionError::Io.
rest_fetch(valid, executed) ==
    LET fetched == fetch_impl(valid, executed)
    IN  IF ~IsOk(fetched) THEN fetched
        ELSE LET body == fetched.value.body
                 input == IF IsOk(body) THEN <<body>>
                          ELSE <<Err([variant |-> "Io"])>>
                 r == decode("D", input)
             IN  IF r.tag = "Err" THEN Err(FetchError(r.error.kind, r.error.source))
                 ELSE r

\* Rest::send_impl: build the PUT request, execute it.
send_impl(executed) ==
    IF ~IsOk(executed) THEN Err(classify_reqwest(executed.error))
    ELSE executed

\* The three methods of <&mut Rest as Sink>, after the encoder call:
\* let body = ...?; self.send_impl(body).await.map(|_| ()).map_err(Into::into)
rest_send_body(body, executed) ==
    IF body.tag = "Err" THEN Err([kind |-> "Encode", source |-> body.error])
    ELSE LET delivered == send_impl(executed)
         IN  IF IsOk(delivered) THEN Ok("()")
             ELSE Err([kind |-> "Connection", source |-> delivered.error])

PutRequestsUnchecked(body) ==
    <<[method |-> "PUT", body |-> IF IsOk(body) THEN body.value ELSE <<>>]>>

\* The requests a call of a Sink method issues: one PUT with the body, if
\* the encoder returned one.
PutRequests(body) ==
    IF IsOk(body) THEN <<[method |-> "PUT", body |-> body.value]>> ELSE <<>>

\* The requests a call of a Source method issues: one GET with the query,
\* if the request could be built.
GetRequests(valid, params) ==
    IF valid THEN <<[method |-> "GET", query |-> params]>> ELSE <<>>

\* TestData::id()
IdField == [name |-> "id", getter |-> "id"]

\* The queries handed to the connector: the predicates over id.
RestQueries ==
    {True} \cup UNION {{Eq(IdField, v), Ne(IdField, v), Gt(IdField, v), Lt(IdField, v)}
                          : v \in Values}

\* The status codes of the modelled responses.
Statuses == {200, 204, 404, 500}

\* What Client::execute can give for a GET: an error, or a response of any
\* status whose body is any of the wire's byte strings, or fails to arrive.
FetchExecuted ==
    {Err(e) : e \in ExecuteErrors}
        \cup {Ok([status |-> c, body |-> b]) :
                  c \in Statuses,
                  b \in {Ok(w) : w \in WireBytes} \cup {Err(BodyError)}}

\* What Client::execute can give for a PUT.
SendExecuted ==
    {Err(e) : e \in ExecuteErrors}
        \cup {Ok([status |-> c, body |-> Ok(<<>>)]) : c \in Statuses}

InitRest ==
    /\ pc = "start"
    /\ QueryIdle
    /\ RestIdle
    /\ CodecIdle
    /\ ConnectorIdle

\* let outcome = rest.fetch_all(query).await;
RestFetchAll ==
    /\ pc = "start"
    /\ \E params \in RestQueries, valid \in BOOLEAN, executed \in FetchExecuted :
         /\ rest_query' = params
         /\ requests' = GetRequests(valid, params)
         /\ response' = IF valid THEN executed ELSE None
         /\ outcome' = rest_fetch_all(valid, executed)
    /\ pc' = "fetch_all"
    /\ UNCHANGED <<queryState, codecVars, connectorVars>>

\* let outcome = rest.fetch_one(query).await;
RestFetchOne ==
    /\ pc = "start"
    /\ \E params \in RestQueries, valid \in BOOLEAN, executed \in FetchExecuted :
         /\ rest_query' = params
         /\ requests' = GetRequests(valid, params)
         /\ response' = IF valid THEN executed ELSE None
         /\ outcome' = rest_fetch_one(valid, executed)
    /\ pc' = "fetch_one"
    /\ UNCHANGED <<queryState, codecVars, connectorVars>>

\* let outcome = rest.fetch(query).await;
RestFetch ==
    /\ pc = "start"
    /\ \E params \in RestQueries, valid \in BOOLEAN, executed \in FetchExecuted :
         /\ rest_query' = params
         /\ requests' = GetRequests(valid, params)
         /\ response' = IF valid THEN executed ELSE None
         /\ outcome' = rest_fetch(valid, executed)
    /\ pc' = "fetch"
    /\ UNCHANGED <<queryState, codecVars, connectorVars>>

\* let outcome = rest.send(entries).await;
RestSend ==
    /\ pc = "start"
    /\ \E l \in Lists, executed \in SendExecuted :
         LET body == EncoderEncode(l)
         IN  /\ entries' = l
             /\ requests' = PutRequests(body)
             /\ response' = IF IsOk(body) THEN executed ELSE None
             /\ outcome' = rest_send_body(body, executed)
    /\ pc' = "send"
    /\ UNCHANGED <<queryState, rest_query, connectorVars>>
    /\ UNCHANGED <<overflow_checks, encoded, op, bytes, stream, decoded>>

\* let outcome = rest.send_all(&entries).await;
RestSendAll ==
    /\ pc = "start"
    /\ \E l \in Lists, executed \in SendExecuted :
         LET body == EncoderEncodeAll(l)
         IN  /\ entries' = l
             /\ requests' = PutRequests(body)
             /\ response' = IF IsOk(body) THEN executed ELSE None
             /\ outcome' = rest_send_body(body, executed)
    /\ pc' = "send_all"
    /\ UNCHANGED <<queryState, rest_query, connectorVars>>
    /\ UNCHANGED <<overflow_checks, encoded, op, bytes, stream, decoded>>

\* let outcome = rest.send_one(entry).await;
RestSendOne ==
    /\ pc = "start"
    /\ \E x \in Entries, executed \in SendExecuted :
         LET body == EncoderEncodeOne(x)
         IN  /\ entries' = <<x>>
             /\ requests' = PutRequests(body)
             /\ response' = IF IsOk(body) THEN executed ELSE None
             /\ outcome' = rest_send_body(body, executed)
    /\ pc' = "send_one"
    /\ UNCHANGED <<queryState, rest_query, connectorVars>>
    /\ UNCHANGED <<overflow_checks, encoded, op, bytes, stream, decoded>>

NextRest ==
    \/ RestFetchAll \/ RestFetchOne \/ RestFetch
    \/ RestSend \/ RestSendAll \/ RestSendOne

SpecRest == InitRest /\ [][NextRest]_vars

\* The records a successful call of a Source method yields.
Yielded ==
    CASE pc = "fetch_all" -> Range(outcome.value)
      [] pc = "fetch_one" -> {outcome.value}
      [] pc = "fetch" ->
           {outcome.value[i].value :
                i \in {j \in 1..Len(outcome.value) : IsOk(outcome.value[j])}}

\* C18: every record fetch, fetch_all and fetch_one yield satisfies the
\* query, whatever records the endpoint answers with.
C18_FetchedSatisfyQuery ==
    (pc \in {"fetch_all", "fetch_one", "fetch"} /\ IsOk(outcome)) =>
        \A record \in Yielded : evaluate(rest_query, record)

SendMethods == {"send", "send_all", "send_one"}

IsSuccess(status) == status \in 200..299

\* C19: a response whose status is not 2xx makes send, send_all and send_one
\* return Connection::Http with that status; they return Ok(()) only on 2xx.
C19_NonSuccessIsHttpError ==
    (pc \in SendMethods /\ requests # <<>> /\ IsOk(response)) =>
        LET status == response.value.status
        IN  /\ ~IsSuccess(status) =>
                  /\ outcome.tag = "Err"
                  /\ outcome.error.kind = "Connection"
                  /\ outcome.error.source = [variant |-> "Http", code |-> status]
            /\ IsOk(outcome) => IsSuccess(status)

\* C20: send_all over a slice and send over an iterator issue exactly one
\* request whose body is the encoding of the whole batch; if an entry
\* cannot be encoded no request is issued and the result is SendError::Encode.
C20_BatchIsOneRequest ==
    pc \in {"send", "send_all"} =>
        IF entries \in DataLists
        THEN /\ Len(requests) = 1
             /\ requests[1].body = to_vec_slice(entries).value
        ELSE /\ requests = <<>>
             /\ outcome.tag = "Err"
             /\ outcome.error.kind = "Encode"

\* C20 witness: a batch of two entries has been sent by send_all in one
\* request that was answered.
C20_Witness ==
    /\ pc = "send_all"
    /\ Len(entries) = 2
    /\ Len(requests) = 1
    /\ IsOk(outcome)

(***************************************************************************)
(* The typestate builder of the REST connector (rest/builder.rs).  The     *)
(* builder is a record of its eight optional fields and of the eight       *)
(* boolean const parameters of its type; a setter is callable when the     *)
(* impl block it lives in matches the flags.                               *)
(***************************************************************************)

\* The URLs handed to the setters; "not a url" fails IntoUrl::into_url.
Urls == {"http://a", "http://b", "not a url"}

\* GET is the default of the source and not of the sink; POST is no default.
Methods == {"GET", "POST"}

InvalidUrl == [variant |-> "InvalidUrl"]

\* IntoUrl::into_url
into_url(u) ==
    IF u = "not a url" THEN Err(ReqwestError("builder", None, FALSE, FALSE))
    ELSE Ok(u)

\* Builder::new
BuilderNew ==
    [source_url |-> None, source_method |-> None, sink_url |-> None,
     sink_method |-> None, client |-> None, encoder |-> None,
     decoder |-> None, combined |-> None,
     SOURCE_URL |-> FALSE, SOURCE_METHOD |-> FALSE, SINK_URL |-> FALSE,
     SINK_METHOD |-> FALSE, CLIENT |-> FALSE, ENCODER |-> FALSE,
     DECODER |-> FALSE, COMBINED |-> FALSE]

\* Builder::source_url
source_url(self, u) ==
    IF ~IsOk(into_url(u)) THEN Err(InvalidUrl)
    ELSE Ok([self EXCEPT !.source_url = Some(into_url(u).value),
                         !.SOURCE_URL = TRUE])

\* Builder::source_method
source_method(self, m) ==
    [self EXCEPT !.source_method = Some(m), !.SOURCE_METHOD = TRUE]

\* Builder::sink_url: the url is stored in the field `source_url`, and the
\* returned type has SINK_URL = true.
sink_url(self, u) ==
    IF ~IsOk(into_url(u)) THEN Err(InvalidUrl)
    ELSE Ok([self EXCEPT !.source_url = Some(into_url(u).value),
                         !.SINK_URL = TRUE])

\* Builder::sink_method
sink_method(self, m) ==
    [self EXCEPT !.sink_method = Some(m), !.SINK_METHOD = TRUE]

\* Builder::client
client(self, c) ==
    [self EXCEPT !.client = Some(c), !.CLIENT = TRUE]

\* Builder::encoder
encoder(self, e) ==
    IF self.combined # None THEN Panic("assertion failed: self.combined.is_none()")
    ELSE [self EXCEPT !.encoder = Some(e), !.ENCODER = TRUE]

\* Builder::decoder
decoder(self, d) ==
    IF self.combined # None THEN Panic("assertion failed: self.combined.is_none()")
    ELSE [self EXCEPT !.decoder = Some(d), !.DECODER = TRUE]

\* Codec::combined
CodecCombined(c) == [combined |-> c]

\* Codec::separate
CodecSeparate(e, d) == [encoder |-> e, decoder |-> d]

\* Builder::codec
codec(self, c) ==
    IF self.encoder # None THEN Panic("assertion failed: self.encoder.is_none()")
    ELSE IF self.decoder # None
    THEN Panic("assertion failed: self.decoder.is_none()")
    ELSE [self EXCEPT !.combined = Some(CodecCombined(c)), !.COMBINED = TRUE]

\* The impl blocks: the const parameters a setter's receiver type fixes.
CanSourceUrl(self) == ~self.SOURCE_URL
CanSourceMethod(self) == ~self.SOURCE_METHOD
CanSinkUrl(self) == ~self.SINK_URL
CanSinkMethod(self) == ~self.SINK_METHOD
CanClient(self) == ~self.CLIENT
CanEncoder(self) == ~self.ENCODER /\ ~self.COMBINED
CanDecoder(self) == ~self.DECODER /\ ~self.COMBINED
CanCodec(self) == ~self.ENCODER /\ ~self.DECODER /\ ~self.COMBINED

\* The IsReadOnlyBuilder of a Build impl that would not ask for SINK_URL = false.
IsReadOnlyBuilderAnySink(self) ==
    /\ self.SOURCE_URL /\ self.DECODER
    /\ ~self.SINK_METHOD /\ ~self.ENCODER /\ ~self.COMBINED

\* The receiver types of the four impls of Build.
IsReadOnlyBuilder(self) ==
    /\ self.SOURCE_URL /\ self.DECODER
    /\ ~self.SINK_URL /\ ~self.SINK_METHOD /\ ~self.ENCODER /\ ~self.COMBINED

IsWriteOnlyBuilder(self) ==
    /\ self.SINK_URL /\ self.ENCODER
    /\ ~self.SOURCE_URL /\ ~self.SOURCE_METHOD /\ ~self.DECODER /\ ~self.COMBINED

IsReadWriteBuilder(self) ==
    /\ self.SOURCE_URL /\ self.SINK_URL /\ self.ENCODER /\ self.DECODER
    /\ ~self.COMBINED

IsReadWriteCodecBuilder(self) ==
    /\ self.SOURCE_URL /\ self.SINK_URL /\ self.COMBINED
    /\ ~self.ENCODER /\ ~self.DECODER

\* <Builder as Build>::Output, "none" where no impl of Build applies.
BuildOutput(self) ==
    CASE IsReadOnlyBuilder(self) -> "ReadOnly"
      [] IsWriteOnlyBuilder(self) -> "WriteOnly"
      [] IsReadWriteBuilder(self) \/ IsReadWriteCodecBuilder(self) -> "ReadWrite"
      [] OTHER -> "none"

unwrap_or(option, default) == IF IsSome(option) THEN Unwrap(option) ELSE default

\* Client::default()
DefaultClient == "default client"

\* Build::build of the ReadOnly builder
BuildReadOnlyOutput(self) ==
    IF ~(IsSome(self.source_url) /\ IsSome(self.decoder))
    THEN Panic("unreachable")
    ELSE [flavour |-> "ReadOnly",
          url |-> Unwrap(self.source_url),
          method |-> unwrap_or(self.source_method, "GET"),
          client |-> unwrap_or(self.client, DefaultClient),
          decoder |-> Unwrap(self.decoder)]

\* Build::build of the WriteOnly builder
BuildWriteOnlyOutput(self) ==
    IF ~(IsSome(self.sink_url) /\ IsSome(self.encoder))
    THEN Panic("unreachable")
    ELSE [flavour |-> "WriteOnly",
          url |-> Unwrap(self.sink_url),
          method |-> unwrap_or(self.sink_method, "GET"),
          client |-> unwrap_or(self.client, DefaultClient),
          encoder |-> Unwrap(self.encoder)]

\* Build::build of the ReadWrite builder with an encoder and a decoder
BuildReadWriteOutput(self) ==
    IF ~(/\ IsSome(self.source_url) /\ IsSome(self.sink_url)
         /\ IsSome(self.encoder) /\ IsSome(self.decoder)
         /\ self.combined = None)
    THEN Panic("unreachable")
    ELSE [flavour |-> "ReadWrite",
          source_url |-> Unwrap(self.source_url),
          source_method |-> unwrap_or(self.source_method, "GET"),
          sink_url |-> Unwrap(self.sink_url),
          sink_method |-> unwrap_or(self.sink_method, "PUT"),
          client |-> unwrap_or(self.client, DefaultClient),
          codec |-> CodecSeparate(Unwrap(self.encoder), Unwrap(self.decoder))]

\* Build::build of the ReadWrite builder with a codec
BuildReadWriteCodecOutput(self) ==
    IF ~(/\ IsSome(self.source_url) /\ IsSome(self.sink_url)
         /\ self.encoder = None /\ self.decoder = None
         /\ IsSome(self.combined))
    THEN Panic("unreachable")
    ELSE [flavour |-> "ReadWrite",
          source_url |-> Unwrap(self.source_url),
          source_method |-> unwrap_or(self.source_method, "GET"),
          sink_url |-> Unwrap(self.sink_url),
          sink_method |-> unwrap_or(self.sink_method, "PUT"),
          client |-> unwrap_or(self.client, DefaultClient),
          codec |-> CodecCombined(Unwrap(self.combined))]

\* Everything but pc, the builder's state and the value build() returned.
builderFrame == <<queryState, codecVars, restVars, brokerVars, sinkVars>>

BrokerIdle ==
    /\ sources = <<>>
    /\ polled = <<>>
    /\ buffer = <<>>
    /\ stack = <<>>

SinkIdle ==
    /\ sink = <<>>
    /\ sent = <<>>

\* let builder = Builder::new();
InitBuilder ==
    /\ pc = "builder"
    /\ QueryIdle
    /\ CodecIdle
    /\ RestIdle
    /\ builder = BuilderNew
    /\ calls = <<>>
    /\ returned = None
    /\ BrokerIdle
    /\ SinkIdle

\* A call of a setter that returns a Result: `?` hands the builder on, and an
\* error ends the chain of calls.
CallFallible(name, argument, value) ==
    /\ calls' = Append(calls, <<name, argument>>)
    /\ IF IsOk(value)
       THEN /\ builder' = value.value
            /\ UNCHANGED <<pc, returned>>
       ELSE /\ pc' = "failed"
            /\ returned' = value
            /\ UNCHANGED builder
    /\ UNCHANGED builderFrame

\* A call of a setter that returns the builder, or panics on a failed assertion.
CallSetter(name, argument, value) ==
    /\ calls' = Append(calls, <<name, argument>>)
    /\ IF value \in {Panic("assertion failed: self.combined.is_none()"),
                     Panic("assertion failed: self.encoder.is_none()"),
                     Panic("assertion failed: self.decoder.is_none()")}
       THEN /\ pc' = "panicked"
            /\ returned' = value
            /\ UNCHANGED builder
       ELSE /\ builder' = value
            /\ UNCHANGED <<pc, returned>>
    /\ UNCHANGED builderFrame

\* let builder = builder.source_url(u)?;
SourceUrl ==
    /\ pc = "builder"
    /\ CanSourceUrl(builder)
    /\ \E u \in Urls : CallFallible("source_url", u, source_url(builder, u))

\* let builder = builder.source_method(m);
SourceMethod ==
    /\ pc = "builder"
    /\ CanSourceMethod(builder)
    /\ \E m \in Methods : CallSetter("source_method", m, source_method(builder, m))

\* let builder = builder.sink_url(u)?;
SinkUrl ==
    /\ pc = "builder"
    /\ CanSinkUrl(builder)
    /\ \E u \in Urls : CallFallible("sink_url", u, sink_url(builder, u))

\* let builder = builder.sink_method(m);
SinkMethod ==
    /\ pc = "builder"
    /\ CanSinkMethod(builder)
    /\ \E m \in Methods : CallSetter("sink_method", m, sink_method(builder, m))

\* let builder = builder.client(c);
SetClient ==
    /\ pc = "builder"
    /\ CanClient(builder)
    /\ CallSetter("client", "c", client(builder, "c"))

\* let builder = builder.encoder(e);
SetEncoder ==
    /\ pc = "builder"
    /\ CanEncoder(builder)
    /\ CallSetter("encoder", "e", encoder(builder, "e"))

\* let builder = builder.decoder(d);
SetDecoder ==
    /\ pc = "builder"
    /\ CanDecoder(builder)
    /\ CallSetter("decoder", "d", decoder(builder, "d"))

\* let builder = builder.codec(c);
SetCodec ==
    /\ pc = "builder"
    /\ CanCodec(builder)
    /\ CallSetter("codec", "k", codec(builder, "k"))

\* builder.build(), on a builder one of the impls of Build applies to; the
\* trace keeps the Output type of that impl.
CallBuild(output) ==
    /\ pc = "builder"
    /\ returned' = output
    /\ pc' = "build"
    /\ calls' = Append(calls, <<"build", BuildOutput(builder)>>)
    /\ UNCHANGED builder
    /\ UNCHANGED builderFrame

BuildReadOnly ==
    /\ IsReadOnlyBuilder(builder)
    /\ CallBuild(BuildReadOnlyOutput(builder))

BuildWriteOnly ==
    /\ IsWriteOnlyBuilder(builder)
    /\ CallBuild(BuildWriteOnlyOutput(builder))

BuildReadWrite ==
    /\ IsReadWriteBuilder(builder)
    /\ CallBuild(BuildReadWriteOutput(builder))

BuildReadWriteCodec ==
    /\ IsReadWriteCodecBuilder(builder)
    /\ CallBuild(BuildReadWriteCodecOutput(builder))

NextBuilder ==
    \/ SourceUrl \/ SourceMethod \/ SinkUrl \/ SinkMethod
    \/ SetClient \/ SetEncoder \/ SetDecoder \/ SetCodec
    \/ BuildReadOnly \/ BuildWriteOnly \/ BuildReadWrite \/ BuildReadWriteCodec

SpecBuilder == InitBuilder /\ [][NextBuilder]_vars

\* The setters applied so far, and the argument each was given.
Applied == {call[1] : call \in Range(calls)} \ {"build"}

ArgumentOf(name) ==
    (CHOOSE call \in Range(calls) : call[1] = name)[2]

IsPanic(value) == "tag" \in DOMAIN value /\ value.tag = "Panic"

\* The method a built connector is to use: the setter's argument, or the default.
MethodOrDefault(name, default) ==
    IF name \in Applied THEN ArgumentOf(name) ELSE default

\* The flavour of connector the impl of Build that ran produces.
Built == calls[Len(calls)][2]

\* C21: every connector build() produces uses GET as its source method
\* unless source_method(m) was called and PUT as its sink method unless
\* sink_method(m) was called, and exactly m when the setter was called; this
\* for the read-only, the write-only and both read-write builders.
C21_MethodDefaults ==
    pc = "build" =>
        /\ ~IsPanic(returned)
        /\ Built = "ReadOnly" =>
               returned.method = MethodOrDefault("source_method", "GET")
        /\ Built = "WriteOnly" =>
               returned.method = MethodOrDefault("sink_method", "PUT")
        /\ Built = "ReadWrite" =>
               /\ returned.source_method = MethodOrDefault("source_method", "GET")
               /\ returned.sink_method = MethodOrDefault("sink_method", "PUT")

\* The cases of the builder's documentation: what a case requires, and what
\* it leaves no room for.
ReadSide == {"source_url", "source_method", "decoder"}
WriteSide == {"sink_url", "sink_method", "encoder"}

ExpectedOutput(setters) ==
    CASE {"source_url", "decoder"} \subseteq setters
             /\ setters \cap (WriteSide \cup {"codec"}) = {} -> "ReadOnly"
      [] {"sink_url", "encoder"} \subseteq setters
             /\ setters \cap (ReadSide \cup {"codec"}) = {} -> "WriteOnly"
      [] {"source_url", "sink_url"} \subseteq setters
             /\ setters \cap {"encoder", "decoder", "codec"}
                    \in {{"encoder", "decoder"}, {"codec"}} -> "ReadWrite"
      [] OTHER -> "none"

\* No setter occurs twice in the calls made.
EachSetterOnce ==
    \A i, j \in DOMAIN calls : calls[i][1] = calls[j][1] => i = j

OptionalFields ==
    [source_url |-> "SOURCE_URL", source_method |-> "SOURCE_METHOD",
     sink_url |-> "SINK_URL", sink_method |-> "SINK_METHOD",
     client |-> "CLIENT", encoder |-> "ENCODER", decoder |-> "DECODER",
     combined |-> "COMBINED"]

\* The INVARIANT comments of the struct.
BuilderInvariants(self) ==
    /\ \A name \in DOMAIN OptionalFields :
           IsSome(self[name]) = self[OptionalFields[name]]
    /\ ~(IsSome(self.combined) /\ IsSome(self.encoder))
    /\ ~(IsSome(self.combined) /\ IsSome(self.decoder))

\* C28: after any sequence of setters from Builder::new() each optional
\* field is set exactly when its flag is true and combined is never set with
\* encoder or decoder; no setter fails an assertion and build() never
\* reaches its unreachable branch.
C28_FieldsMatchFlags ==
    /\ pc \in {"builder", "build"} => BuilderInvariants(builder)
    /\ pc # "panicked"
    /\ pc = "build" => returned # Panic("unreachable")

\* The field a setter is to store its argument in, and the value stored.
FieldOf(name) == IF name = "codec" THEN "combined" ELSE name

Stored(name) ==
    IF name = "codec" THEN CodecCombined(ArgumentOf(name)) ELSE ArgumentOf(name)

\* C29: each setter changes only its own field: every field holds the
\* argument of its setter if that was called and nothing otherwise, so that
\* a ReadWrite built after source_url(a) and sink_url(b), in either order,
\* fetches from a and sends to b.
C29_SettersChangeOwnField ==
    /\ pc = "builder" =>
           \A name \in (DOMAIN OptionalFields \ {"combined"}) \cup {"codec"} :
               builder[FieldOf(name)] =
                   IF name \in Applied THEN Some(Stored(name)) ELSE None
    /\ (pc = "build" /\ Built = "ReadWrite") =>
           /\ ~IsPanic(returned)
           /\ returned.source_url = ArgumentOf("source_url")
           /\ returned.sink_url = ArgumentOf("sink_url")

(***************************************************************************)
(* The default methods of Source (connector.rs).  A Source overrides       *)
(* fetch, fetch_all or neither; a default method calls the method it is    *)
(* wired to and hands that method's value through its own combinator.  The *)
(* calls are followed frame by frame on a stack.                           *)
(***************************************************************************)

\* The longest stream or vector a Source's own method gives.
MaxItems == 2

\* The deepest stack of calls followed; the next call exhausts the stack.
MaxDepth == 6

FetchErrors == {FetchError("Connection", e) : e \in ConnectionErrors}

\* The items of a stream: Result<T, FetchError>.
Items == {Ok(v) : v \in Values} \cup {Err(e) : e \in FetchErrors}

SeqsUpTo(S, n) == UNION {[1..k -> S] : k \in 0..n}

\* A value of the return type of a method.  The four methods return values
\* of four types; a value is kept under the name of the method it is the
\* value of, which keeps values of different types apart.
Typed(method, value) == [m \in {method} |-> value]
MethodOf(typed) == CHOOSE m \in DOMAIN typed : TRUE
ValueOf(typed) == typed[MethodOf(typed)]

\* The Sources: the method overridden, and what its body gives when awaited.
FetchSources ==
    {Typed("fetch", b) :
         b \in {Err(e) : e \in FetchErrors}
                   \cup {Ok(s) : s \in SeqsUpTo(Items, MaxItems)}}

FetchAllSources ==
    {Typed("fetch_all", b) :
         b \in {Err(e) : e \in FetchErrors}
                   \cup {Ok(v) : v \in SeqsUpTo(Values, MaxItems)}}

\* A Source that relies on the defaults for both fetch and fetch_all.
BareSource == Typed("neither", "no body")

SourceMethods == {"fetch", "fetch_all", "fetch_one", "fetch_optional"}

\* A wiring in which the default fetch_all calls itself.
CalleeOfItself(method) ==
    CASE method = "fetch" -> "fetch_all"
      [] method = "fetch_all" -> "fetch_all"
      [] method = "fetch_one" -> "fetch_optional"
      [] method = "fetch_optional" -> "fetch"

\* The method the default body of a method calls first.
Callee(method) ==
    CASE method = "fetch" -> "fetch_all"
      [] method = "fetch_all" -> "fetch"
      [] method = "fetch_one" -> "fetch_optional"
      [] method = "fetch_optional" -> "fetch"

\* from_iter(vec.into_iter().map(Ok))
StreamOf(vec) == [i \in DOMAIN vec |-> Ok(vec[i])]

\* Source::fetch (default): .map(move |res| res.map(|vec| from_iter(..)))
FetchDefault(res) == IF IsOk(res) THEN Ok(StreamOf(res.value)) ELSE res

RECURSIVE TryCollectVec(_, _)
\* TryStreamExt::try_collect::<Vec<T>>: the items in order, or the first error.
TryCollectVec(vec, items) ==
    IF Len(items) = 0 THEN Ok(vec)
    ELSE IF IsOk(items[1]) THEN TryCollectVec(Append(vec, items[1].value), Tail(items))
    ELSE items[1]

\* Source::fetch_all (default): .and_then(TryStreamExt::try_collect)
FetchAllDefault(res) ==
    IF IsOk(res) THEN TryCollectVec(<<>>, res.value) ELSE res

\* A fetch_optional that would take the last item of the stream.
FetchOptionalLast(res) ==
    IF ~IsOk(res) THEN res
    ELSE IF Len(res.value) = 0 THEN Ok(None)
    ELSE IF IsOk(res.value[Len(res.value)])
    THEN Ok(Some(res.value[Len(res.value)].value))
    ELSE res.value[Len(res.value)]

\* Source::fetch_optional (default):
\* .and_then(move |stream| stream.into_future().map(|next| next.0.transpose()))
FetchOptionalDefault(res) ==
    IF ~IsOk(res) THEN res
    ELSE IF Len(res.value) = 0 THEN Ok(None)
    ELSE IF IsOk(res.value[1]) THEN Ok(Some(res.value[1].value))
    ELSE res.value[1]

NoSuchEntry == [kind |-> "NoSuchEntry"]

\* Source::fetch_one (default): .map(|res| res?.ok_or(FetchOneError::NoSuchEntry))
FetchOneDefault(res) ==
    IF ~IsOk(res) THEN Err([kind |-> "Fetch", source |-> res.error])
    ELSE IF res.value = None THEN Err(NoSuchEntry)
    ELSE Ok(Unwrap(res.value))

\* What the default body of a method makes of the value its callee gave.
Continue(method, res) ==
    CASE method = "fetch" -> FetchDefault(res)
      [] method = "fetch_all" -> FetchAllDefault(res)
      [] method = "fetch_one" -> FetchOneDefault(res)
      [] method = "fetch_optional" -> FetchOptionalDefault(res)

\* The one Source of this section, and the frame on top of the stack.
TheSource == sources[1]
Top == stack[Len(stack)]

\* The method the Source overrides, and what its body gives.
Overrides == MethodOf(TheSource)
Body == ValueOf(TheSource)

IsOverridden(method) == Overrides = method

\* Everything but pc and the state of the call on the Source.
sourceFrame == <<queryState, codecVars, restVars, builder, polled, sinkVars>>

InitSource ==
    /\ pc = "start"
    /\ QueryIdle
    /\ CodecIdle
    /\ RestIdle
    /\ builder = None
    /\ SinkIdle
    /\ \/ sources \in {<<s>> : s \in FetchSources}
       \/ sources \in {<<s>> : s \in FetchAllSources}
       \/ sources = <<BareSource>>
    /\ calls = <<>>
    /\ stack = <<>>
    /\ buffer = None
    /\ polled = <<>>
    /\ returned = None

\* The caller calls one of the four methods of the Source.
SourceCall ==
    /\ pc = "start"
    /\ pc' = "running"
    /\ \E method \in SourceMethods :
         /\ calls' = <<method>>
         /\ stack' = <<method>>
    /\ UNCHANGED <<sources, buffer, returned, sourceFrame>>

\* The method entered is a default one: its body calls the method it is wired to.
EnterDefault ==
    /\ pc = "running"
    /\ buffer = None
    /\ ~IsOverridden(Top)
    /\ Len(stack) < MaxDepth
    /\ stack' = Append(stack, Callee(Top))
    /\ UNCHANGED <<pc, sources, calls, buffer, returned, sourceFrame>>

\* The calls nest deeper than the stack allows: the program is aborted.
StackOverflow ==
    /\ pc = "running"
    /\ buffer = None
    /\ ~IsOverridden(Top)
    /\ Len(stack) = MaxDepth
    /\ pc' = "overflow"
    /\ UNCHANGED <<sources, calls, stack, buffer, returned, sourceFrame>>

\* The method entered is the Source's own: its body terminates with a value.
RunOverride ==
    /\ pc = "running"
    /\ buffer = None
    /\ IsOverridden(Top)
    /\ stack' = SubSeq(stack, 1, Len(stack) - 1)
    /\ buffer' = Some(Typed(Top, Body))
    /\ UNCHANGED <<pc, sources, calls, returned, sourceFrame>>

\* The callee's value reaches the default method that called it.
ResumeDefault ==
    /\ pc = "running"
    /\ buffer # None
    /\ stack # <<>>
    /\ stack' = SubSeq(stack, 1, Len(stack) - 1)
    /\ buffer' = Some(Typed(Top, Continue(Top, ValueOf(Unwrap(buffer)))))
    /\ UNCHANGED <<pc, sources, calls, returned, sourceFrame>>

\* The value reaches the caller: `returned` is None before, Some of it after.
SourceReturn ==
    /\ pc = "running"
    /\ buffer # None
    /\ stack = <<>>
    /\ pc' = "returned"
    /\ returned' = buffer
    /\ buffer' = None
    /\ UNCHANGED <<sources, calls, stack, sourceFrame>>

NextSource ==
    \/ SourceCall \/ EnterDefault \/ StackOverflow
    \/ RunOverride \/ ResumeDefault \/ SourceReturn

\* Every step of a call moves pc or the stack.
callProgress == <<pc, stack>>

\* The executor keeps polling a future that can make progress.
SpecSource == InitSource /\ [][NextSource]_vars /\ WF_callProgress(NextSource)

\* C25: the default wirings are well-founded given the required override:
\* on a Source that overrides fetch or fetch_all every call of fetch,
\* fetch_all, fetch_one and fetch_optional eventually returns; on a Source
\* that overrides neither, fetch and fetch_all call each other until the
\* stack is exhausted and no call ever returns a value.
C25_DefaultsWellFounded ==
    /\ [](Overrides = "neither" => returned = None /\ buffer = None)
    /\ [](Overrides = "neither" =>
              \A i \in 1..(Len(stack) - 1) :
                  stack[i] \in {"fetch", "fetch_all"} =>
                      /\ stack[i + 1] \in {"fetch", "fetch_all"}
                      /\ stack[i + 1] # stack[i])
    /\ (pc = "running" /\ Overrides = "neither") ~> (pc = "overflow")
    /\ (pc = "running" /\ Overrides # "neither") ~>
           (pc = "returned" /\ returned # None)

\* C25 witness: fetch_one on a Source that overrides only fetch_all has
\* returned, through the defaults fetch_optional and fetch.
C25_Witness ==
    /\ pc = "returned"
    /\ calls = <<"fetch_one">>
    /\ Overrides = "fetch_all"
    /\ returned # None

\* What Source::fetch gives on the Source: its own body, or the stream the
\* default makes of the vector of its fetch_all.
Fetched ==
    IF Overrides = "fetch" THEN Body
    ELSE IF IsOk(Body) THEN Ok(StreamOf(Body.value))
    ELSE Body

\* The value the call returned.
Returned == ValueOf(Unwrap(returned))

\* The records the Source yields for the query.
YieldedRecords ==
    IF IsOk(Fetched)
    THEN {item.value : item \in {i \in Range(Fetched.value) : IsOk(i)}}
    ELSE {}

\* C26: fetch_optional is Ok(None) on an empty stream, Ok(Some(x)) when
\* the first item is Ok(x), Err(e) when fetch fails with e or the first
\* item is Err(e), whatever the later items; fetch_one is the same with
\* Ok(None) turned into Err(NoSuchEntry) and the error wrapped as Fetch(e);
\* a record returned is one the Source yielded.
C26_SingleFetchFromStream ==
    (pc = "returned" /\ calls[1] \in {"fetch_optional", "fetch_one"}) =>
        LET optional == calls[1] = "fetch_optional"
            first == Fetched.value[1]
        IN  /\ ~IsOk(Fetched) =>
                   Returned = IF optional THEN Fetched
                              ELSE Err([kind |-> "Fetch", source |-> Fetched.error])
            /\ (IsOk(Fetched) /\ Fetched.value = <<>>) =>
                   Returned = IF optional THEN Ok(None) ELSE Err(NoSuchEntry)
            /\ (IsOk(Fetched) /\ Fetched.value # <<>> /\ IsOk(first)) =>
                   /\ Returned = IF optional THEN Ok(Some(first.value))
                                 ELSE Ok(first.value)
                   /\ first.value \in YieldedRecords
            /\ (IsOk(Fetched) /\ Fetched.value # <<>> /\ ~IsOk(first)) =>
                   Returned = IF optional THEN first
                              ELSE Err([kind |-> "Fetch", source |-> first.error])

\* C26 witness: fetch_one returned the first record of a stream whose second
\* item is an error.
C26_Witness ==
    /\ pc = "returned"
    /\ calls = <<"fetch_one">>
    /\ Overrides = "fetch"
    /\ IsOk(Body)
    /\ Len(Body.value) = 2
    /\ ~IsOk(Body.value[2])
    /\ Returned = Ok(Body.value[1].value)

(***************************************************************************)
(* The default Sink::send (connector.rs): a Sink that overrides send_one   *)
(* is handed an iterator of entries.  The stream adaptor `then` pulls an   *)
(* entry, calls send_one on it and awaits the future before it pulls the   *)
(* next; try_collect gathers the units and returns at the first error.     *)
(***************************************************************************)

\* The longest iterator handed to send.
MaxSends == 3

SendErrors ==
    {[kind |-> "Rejected"]}
        \cup {[kind |-> "Connection", source |-> e] : e \in ConnectionErrors}

\* What a call of the Sink's own send_one can give.
SendOutcomes == {Ok("()")} \cup {Err(e) : e \in SendErrors}

\* A collection that no item would end.
CollectNeverEnds(item) == FALSE /\ ~IsOk(item)

\* TryStreamExt::try_collect: an Err item ends the collection.
TryCollectEnds(item) == ~IsOk(item)

\* Everything but pc and the state of the call on the Sink.
sinkFrame ==
    <<queryState, overflow_checks, encoded, op, bytes, stream, decoded,
      restVars, builder, sources, polled, stack>>

InitSink ==
    /\ pc = "start"
    /\ QueryIdle
    /\ CodecIdle
    /\ RestIdle
    /\ ConnectorIdle

\* let returned = sink.send(entries).await;  where send_one is the Sink's own
SinkSend ==
    /\ pc = "start"
    /\ \E iter \in SeqsUpTo(TestData, MaxSends) :
         /\ entries' = iter
         /\ sink' \in [DOMAIN iter -> SendOutcomes]
    /\ pc' = "send"
    /\ UNCHANGED <<calls, sent, buffer, returned, sinkFrame>>

\* `then` pulls the next entry of the iterator and calls send_one on it.
StartSendOne ==
    /\ pc = "send"
    /\ buffer = None
    /\ Len(sent) < Len(entries)
    /\ sent' = Append(sent, entries[Len(sent) + 1])
    /\ buffer' = Some(entries[Len(sent) + 1])
    /\ calls' = Append(calls, <<"send_one", entries[Len(sent) + 1]>>)
    /\ UNCHANGED <<pc, entries, sink, returned, sinkFrame>>

\* The pending send_one completes; try_collect takes its value.
CompleteSendOne ==
    /\ pc = "send"
    /\ buffer # None
    /\ buffer' = None
    /\ calls' = Append(calls, <<"completed", sink[Len(sent)]>>)
    /\ IF TryCollectEnds(sink[Len(sent)])
       THEN /\ returned' = sink[Len(sent)]
            /\ pc' = "returned"
       ELSE UNCHANGED <<pc, returned>>
    /\ UNCHANGED <<entries, sink, sent, sinkFrame>>

\* The iterator is exhausted: try_collect returns the collection of units.
SendReturn ==
    /\ pc = "send"
    /\ buffer = None
    /\ Len(sent) = Len(entries)
    /\ returned' = Ok("()")
    /\ pc' = "returned"
    /\ UNCHANGED <<entries, sink, sent, calls, buffer, sinkFrame>>

NextSink == SinkSend \/ StartSendOne \/ CompleteSendOne \/ SendReturn

SpecSink == InitSink /\ [][NextSink]_vars

\* The calls of send_one made so far, in order.
SendOneCalls == SelectSeq(calls, LAMBDA call : call[1] = "send_one")

\* The first entry whose send_one fails, 0 if none does.
FirstFailure ==
    IF \E i \in DOMAIN sink : ~IsOk(sink[i])
    THEN CHOOSE i \in DOMAIN sink :
             ~IsOk(sink[i]) /\ \A j \in 1..(i - 1) : IsOk(sink[j])
    ELSE 0

\* C27: the default send is sequential and fail-fast: send_one is called
\* once per entry in iterator order, a call starts only after the previous
\* one completed successfully, the first error is returned with no later
\* entry sent, and Ok(()) is returned only when every entry was sent
\* successfully (for an empty iterator, with no send at all).
C27_SendSequentialFailFast ==
    /\ Len(sent) <= Len(entries)
    /\ sent = SubSeq(entries, 1, Len(sent))
    /\ SendOneCalls = [i \in DOMAIN sent |-> <<"send_one", sent[i]>>]
    /\ \A i \in DOMAIN calls :
           calls[i][1] = "send_one" =>
               i = 1 \/ calls[i - 1] = <<"completed", Ok("()")>>
    /\ pc = "returned" =>
           IF FirstFailure = 0
           THEN returned = Ok("()") /\ sent = entries
           ELSE returned = sink[FirstFailure] /\ Len(sent) = FirstFailure

\* C27 witness: of three entries the second failed; its error was returned
\* and the third entry was never handed to send_one.
C27_Witness ==
    /\ pc = "returned"
    /\ Len(entries) = 3
    /\ FirstFailure = 2
    /\ returned = sink[2]
    /\ Len(sent) = 2

(***************************************************************************)
(* The Broker: a Source that owns several Sources and runs a query against *)
(* all of them concurrently.  A Source here gives a stream of records that *)
(* may end in an error, or fails to fetch at all; its fetch_one and        *)
(* fetch_all are the defaults of connector.rs over that stream.  The       *)
(* completions of the Sources interleave in every order.                   *)
(***************************************************************************)

\* A Broker of two Sources.
SourceIds == {"first", "second"}

\* What fetch gives on a Source of the Broker.
BrokerBodies ==
    {Err(e) : e \in FetchErrors}
        \cup {Ok(StreamOf(vec) \o tail) :
                  vec \in SeqsUpTo(Values, MaxItems),
                  tail \in {<<>>} \cup {<<Err(e)>> : e \in FetchErrors}}

\* source.fetch_one(query) and source.fetch_all(query) on a Source of the Broker
SourceFetchOne(id) == FetchOneDefault(FetchOptionalDefault(sources[id]))
SourceFetchAll(id) == FetchAllDefault(sources[id])

\* The items the Broker takes from a Source on fetch_all: its stream, or the
\* error of its fetch.
BrokerStream(id) ==
    IF IsOk(sources[id]) THEN sources[id].value ELSE <<sources[id]>>

\* An aggregation that would report the first failure of any kind.
FirstFailureOf(failures) == failures[1]

\* Broker::fetch_one when no Source succeeded: NoSuchEntry if that is what all
\* Sources returned, the first error encountered otherwise.
BrokerFetchOneError(failures) ==
    IF \A i \in DOMAIN failures : failures[i] = Err(NoSuchEntry)
    THEN Err(NoSuchEntry)
    ELSE failures[CHOOSE i \in DOMAIN failures :
                      /\ failures[i] # Err(NoSuchEntry)
                      /\ \A j \in 1..(i - 1) : failures[j] = Err(NoSuchEntry)]

\* A merge that would drop a record equal to one already merged.
MergeDistinct(merged, id, record) ==
    IF \E i \in DOMAIN merged : merged[i][2] = record THEN merged
    ELSE Append(merged, <<id, record>>)

\* Broker::fetch_all takes a record from the Source that has one ready.
Merge(merged, id, record) == Append(merged, <<id, record>>)

\* The records merged, without the Source each came from.
RecordsOf(merged) == [i \in DOMAIN merged |-> merged[i][2]]

\* Everything but pc and the state of the call on the Broker.
brokerFrame == <<queryState, codecVars, restVars, builder, stack, sinkVars>>

InitBroker ==
    /\ pc = "start"
    /\ QueryIdle
    /\ CodecIdle
    /\ RestIdle
    /\ builder = None
    /\ SinkIdle
    /\ sources \in [SourceIds -> BrokerBodies]
    /\ polled = [id \in SourceIds |-> 0]
    /\ calls = <<>>
    /\ stack = <<>>
    /\ buffer = <<>>
    /\ returned = None

\* broker.fetch_one(query): every Source is asked for one entry.
BrokerFetchOne ==
    /\ pc = "start"
    /\ calls' = <<"fetch_one">>
    /\ pc' = "fetch_one"
    /\ UNCHANGED <<sources, polled, buffer, returned, brokerFrame>>

\* The fetch_one of a Source completes: a success is returned at once, a
\* failure is kept until every Source has completed.
CompleteFetchOne ==
    /\ pc = "fetch_one"
    /\ \E id \in SourceIds :
         /\ polled[id] = 0
         /\ polled' = [polled EXCEPT ![id] = 1]
         /\ IF IsOk(SourceFetchOne(id))
            THEN /\ returned' = SourceFetchOne(id)
                 /\ pc' = "returned"
                 /\ UNCHANGED buffer
            ELSE /\ buffer' = Append(buffer, SourceFetchOne(id))
                 /\ IF \A other \in SourceIds \ {id} : polled[other] = 1
                    THEN /\ returned' = BrokerFetchOneError(buffer')
                         /\ pc' = "returned"
                    ELSE UNCHANGED <<pc, returned>>
    /\ UNCHANGED <<sources, calls, brokerFrame>>

\* broker.fetch_all(query): every Source is asked for all its entries.
BrokerFetchAll ==
    /\ pc = "start"
    /\ calls' = <<"fetch_all">>
    /\ pc' = "fetch_all"
    /\ UNCHANGED <<sources, polled, buffer, returned, brokerFrame>>

\* A Source has an item ready: a record is merged, an error aborts the call.
PullFetchAll ==
    /\ pc = "fetch_all"
    /\ \E id \in SourceIds :
         /\ polled[id] < Len(BrokerStream(id))
         /\ polled' = [polled EXCEPT ![id] = @ + 1]
         /\ IF IsOk(BrokerStream(id)[polled[id] + 1])
            THEN /\ buffer' = Merge(buffer, id, BrokerStream(id)[polled[id] + 1].value)
                 /\ UNCHANGED <<pc, returned>>
            ELSE /\ returned' = BrokerStream(id)[polled[id] + 1]
                 /\ pc' = "returned"
                 /\ UNCHANGED buffer
    /\ UNCHANGED <<sources, calls, brokerFrame>>

\* Every Source's stream has ended: the merged records are returned.
FetchAllReturn ==
    /\ pc = "fetch_all"
    /\ \A id \in SourceIds : polled[id] = Len(BrokerStream(id))
    /\ returned' = Ok(RecordsOf(buffer))
    /\ pc' = "returned"
    /\ UNCHANGED <<sources, polled, calls, buffer, brokerFrame>>

NextBroker ==
    \/ BrokerFetchOne \/ CompleteFetchOne
    \/ BrokerFetchAll \/ PullFetchAll \/ FetchAllReturn

SpecBroker == InitBroker /\ [][NextBroker]_vars

\* C23: whatever the order in which the Sources complete, the Broker's
\* fetch_one returns Ok(x) if some Source returns Ok(x), also when another
\* Source failed first; NoSuchEntry only if every Source returned
\* NoSuchEntry; and otherwise an error that some Source returned.
C23_FetchOneLenient ==
    (pc = "returned" /\ calls = <<"fetch_one">>) =>
        LET outcomes == {SourceFetchOne(id) : id \in SourceIds}
        IN  /\ returned \in outcomes
            /\ (\E o \in outcomes : IsOk(o)) => IsOk(returned)
            /\ returned = Err(NoSuchEntry) => outcomes = {Err(NoSuchEntry)}
            /\ outcomes = {Err(NoSuchEntry)} => returned = Err(NoSuchEntry)

\* C23 witness: a Source failed with an error first, another then returned
\* Ok(x), and fetch_one returned Ok(x).
C23_Witness ==
    /\ pc = "returned"
    /\ calls = <<"fetch_one">>
    /\ Len(buffer) = 1
    /\ buffer[1] # Err(NoSuchEntry)
    /\ IsOk(returned)

\* The records a Source contributed to the merge, in merged order.
MergedFrom(id) ==
    RecordsOf(SelectSeq(buffer, LAMBDA pair : pair[1] = id))

\* C24: whatever the interleaving of the Sources, the Broker's fetch_all
\* returns an error if the fetch of any Source fails, never a partial Ok;
\* when every Source succeeds it returns the records of all Sources without
\* deduplication: as many as the Sources hold together, those of each Source
\* in their order.
C24_FetchAllStrict ==
    (pc = "returned" /\ calls = <<"fetch_all">>) =>
        IF \E id \in SourceIds : ~IsOk(SourceFetchAll(id))
        THEN /\ ~IsOk(returned)
             /\ returned \in {SourceFetchAll(id) : id \in SourceIds}
        ELSE /\ IsOk(returned)
             /\ returned.value = RecordsOf(buffer)
             /\ \A id \in SourceIds : MergedFrom(id) = SourceFetchAll(id).value
             /\ Len(returned.value) =
                    Len(SourceFetchAll("first").value)
                        + Len(SourceFetchAll("second").value)

\* C24 witness: two Sources holding the same two records succeeded, their
\* records were interleaved, and fetch_all returned all four.
C24_Witness ==
    /\ pc = "returned"
    /\ calls = <<"fetch_all">>
    /\ IsOk(returned)
    /\ Len(returned.value) = 4
    /\ sources["first"] = sources["second"]
    /\ buffer[1][1] = "first"
    /\ buffer[2][1] = "second"
    /\ buffer[3][1] = "first"

(***************************************************************************)
(* Classification of transport errors (errors.rs): every reqwest::Error    *)
(* the accessors can tell apart is handed to the conversion into           *)
(* ConnectionError.                                                        *)
(***************************************************************************)

\* The kinds of failure reqwest tells apart.
ReqwestKinds ==
    {"builder", "request", "redirect", "status", "body", "decode", "upgrade"}

\* The status codes of failed responses.
ErrorStatuses == {c \in Statuses : ~(c \in 200..299)}

\* The errors of the transport: an error of Response::error_for_status
\* carries the status of the response.
ReqwestErrors ==
    {e \in [kind : ReqwestKinds,
            status : {None} \cup {Some(c) : c \in ErrorStatuses},
            timeout : BOOLEAN, connect : BOOLEAN] :
         e.kind = "status" => IsSome(e.status)}

InitClassify ==
    /\ pc = "start"
    /\ QueryIdle
    /\ CodecIdle
    /\ ConnectorIdle
    /\ rest_query = None
    /\ requests = <<>>
    /\ response \in {Err(e) : e \in ReqwestErrors}
    /\ outcome = None

\* let outcome = response.map_err(ConnectionError::from);
Classify ==
    /\ pc = "start"
    /\ outcome' = classify_reqwest(response.error)
    /\ pc' = "classified"
    /\ UNCHANGED <<queryState, codecVars, connectorVars, rest_query, requests, response>>

NextClassify == Classify

SpecClassify == InitClassify /\ [][NextClassify]_vars

\* C30: the classification is total and ordered: an error carrying a status
\* code becomes Http with that code; otherwise a redirect becomes Redirect;
\* otherwise a timeout TimedOut; otherwise a body or decode error Process;
\* every other error Io; no error that arises while a request is executed, a
\* failed response status included, makes it panic.  (Builder errors arise
\* before a request is executed and are left out.)
C30_ClassificationTotal ==
    (pc = "classified" /\ response.error.kind # "builder") =>
        LET value == response.error
        IN  /\ ~IsPanic(outcome)
            /\ outcome =
                   IF IsSome(value.status)
                   THEN [variant |-> "Http", code |-> Unwrap(value.status)]
                   ELSE IF value.kind = "redirect" THEN [variant |-> "Redirect"]
                   ELSE IF value.timeout THEN [variant |-> "TimedOut"]
                   ELSE IF value.kind \in {"body", "decode"}
                   THEN [variant |-> "Process"]
                   ELSE [variant |-> "Io"]

=============================================================================
